---- MODULE Spec2Model ----
(***************************************************************************)
(* Model of the metric-extraction, normalization and reconciliation code   *)
(* of the weekly analytics report:                                         *)
(*   - AcquisitionReconciler      (acquisition_reconciliation.py)          *)
(*   - AppsFlyerWeeklyAnalyzer    (appsflyer_weekly_integration.py)        *)
(*   - GA4AcquisitionHandler      (ga4_acquisition_handler.py)             *)
(*   - AmplitudeDataHandler       (amplitude_data_handler.py)              *)
(*                                                                         *)
(* Numbers.  Counts are integers.  A percentage computed by a float        *)
(* division is kept as the exact fraction [num, den] (den > 0); threshold  *)
(* tests cross-multiply.  Chart values are fixed-point integers in units   *)
(* of 1/Scale.  round(x, 1) and the "+.1f" format are rounding to the      *)
(* nearest tenth, ties to the even tenth.                                  *)
(***************************************************************************)
EXTENDS Integers, Sequences, FiniteSets, TLC

VARIABLES
    channel_mapping,   \* AcquisitionReconciler.channel_mapping
    reverse_mapping,   \* AcquisitionReconciler.reverse_mapping
    pc,                \* position in the run: "ready", "called" or "formatted"
    op,                \* the operation that ran last
    outcome,           \* "none", "report" (returned) or "raised"
    export,            \* the export file handed to analyze_week_data
    appsflyer,         \* dict handed to the last reconciliation / comparison
    ga4,               \* dict handed to the last reconciliation / comparison
    af_by_channel,     \* the local af_by_channel of _perform_reconciliation
    reconciliation,    \* the report returned by _perform_reconciliation
    formatted,         \* the rendering of format_reconciliation_report
    comparison,        \* the result of compare_with_appsflyer
    call,              \* arguments of the last calculate_platform_yoy_comparison
    yoy,               \* what that call returned
    extract_call,      \* arguments of the last extract_platform_metrics
    metrics,           \* what that call returned
    week_call,         \* arguments of the last week-date computation
    week_dates,        \* what that call returned
    hash_seed,         \* the iteration order the process gives to sets
    seen,              \* the calls made so far: operation, arguments, result
    report_call,       \* arguments of the last report generator that ran
    report,            \* what that generator did: raised, or what it rendered
    browser,           \* AppsFlyerWeeklyAnalyzer.browser
    logged_in,         \* AppsFlyerWeeklyAnalyzer.logged_in
    open_browsers,     \* the browsers launched and not closed
    launched,          \* how many browsers chromium.launch has started
    session_pc,        \* position in start_session / reconcile_week
    session_call       \* the call in progress on the session, or the last
                       \* one: its arguments, the browser it launched and
                       \* where it raised

reconVars == <<export, appsflyer, ga4, af_by_channel, reconciliation,
               formatted, comparison>>
yoyVars == <<call, yoy>>
extractVars == <<extract_call, metrics>>
dateVars == <<week_call, week_dates>>
pureVars == <<hash_seed, seen>>
laterVars == <<extractVars, dateVars, pureVars>>
reportVars == <<report_call, report>>
sessionVars == <<browser, logged_in, open_browsers, launched, session_pc,
                 session_call>>
lastVars == <<reportVars, sessionVars>>

vars == <<channel_mapping, reverse_mapping, pc, op, outcome, reconVars, yoyVars,
          laterVars, lastVars>>

----------------------------------------------------------------------------
(* Bounds of the model *)

MaxCsvRows == 2
MaxGa4Rows == 1

\* media sources an export row can name: mapped ones (two of them of the
\* same channel) and one that the mapping table does not list
SourceIds == {"organic", "googleadwords_int", "google_ads", "tiktokglobal_int"}
InstallValues == {0, 1000}
\* channel groups a GA4 response row can name ("Organic Social" has no
\* AppsFlyer source in the mapping table)
Ga4Channels == {"Direct", "Paid Search", "Organic Social"}
NewUserValues == {0, 700}

----------------------------------------------------------------------------
(* Generic helpers *)

Abs(x) == IF x < 0 THEN -x ELSE x

Range(s) == {s[i] : i \in DOMAIN s}

RECURSIVE SumOver(_, _)
SumOver(f, S) ==
    IF S = {} THEN 0
    ELSE LET x == CHOOSE y \in S : TRUE IN f[x] + SumOver(f, S \ {x})

RECURSIVE SeqSum(_)
SeqSum(s) == IF s = <<>> THEN 0 ELSE Head(s) + SeqSum(Tail(s))

RECURSIVE PermsOf(_)
PermsOf(S) ==
    IF S = {} THEN {<<>>}
    ELSE UNION {{<<x>> \o p : p \in PermsOf(S \ {x})} : x \in S}

SeqsUpTo(S, n) == UNION {[1..k -> S] : k \in 0..n}

Take(s, n) == SubSeq(s, 1, IF Len(s) < n THEN Len(s) ELSE n)

\* floor division that is also right for a negative numerator (d > 0)
FloorDiv(n, d) == IF n >= 0 THEN n \div d ELSE -((-n + d - 1) \div d)

\* n/d rounded to the nearest integer, ties to even (d > 0)
RoundHalfEven(n, d) ==
    LET q == FloorDiv(n, d)
        r == n - q * d
    IN  IF 2 * r < d THEN q
        ELSE IF 2 * r > d THEN q + 1
        ELSE IF q % 2 = 0 THEN q ELSE q + 1

\* a float percentage as an exact fraction
Frac(n, d) == [num |-> n, den |-> d]
Zero == Frac(0, 1)
\* mutant: the comparison is not strict
FracAbsAtLeast(p, k) == Abs(p.num) >= k * p.den
FracAbsGT(p, k) == Abs(p.num) > k * p.den
\* the fraction in tenths, as "+.1f" prints it
Tenths(p) == RoundHalfEven(10 * p.num, p.den)

----------------------------------------------------------------------------
(* AcquisitionReconciler.__init__ *)

\* the keys of channel_mapping in insertion order
ChannelOrder ==
    <<"Direct", "Paid Search", "Organic Search", "Paid Social", "Email",
      "Affiliates", "Paid Shopping", "Referral", "Display", "Unassigned">>

ChannelMappingTable ==
    ("Direct" :> <<"organic", "QR_code", "print">>) @@
    ("Paid Search" :> <<"googleadwords_int", "google_ads">>) @@
    ("Organic Search" :> <<"google_organic_seo", "duckduckgo_organic_seo",
                           "yahoo_organic_seo", "bing_organic_seo">>) @@
    ("Paid Social" :> <<"Facebook Ads", "facebook", "Social_Influencers">>) @@
    ("Email" :> <<"emarsys", "bloomreach", "transactional_postmark">>) @@
    ("Affiliates" :> <<"impactradius_int", "impact", "mentionme">>) @@
    ("Paid Shopping" :> <<"google_shopping">>) @@
    ("Referral" :> <<"website-thortful", "card-back-thortful">>) @@
    ("Display" :> <<"display_ads">>) @@
    ("Unassigned" :> <<"unknown", "other">>)

\* the loop of __init__: a later channel overwrites the entry of an earlier one
BuildReverseMapping(cm, order) ==
    LET listed == UNION {Range(cm[order[i]]) : i \in DOMAIN order}
        last(s) == CHOOSE i \in DOMAIN order :
                       /\ s \in Range(cm[order[i]])
                       /\ \A j \in DOMAIN order :
                              s \in Range(cm[order[j]]) => j <= i
    IN  [s \in listed |-> order[last(s)]]

\* dict.get(key, default) on a function
Get(d, k, default) == IF k \in DOMAIN d THEN d[k] ELSE default

----------------------------------------------------------------------------
(* AppsFlyerWeeklyAnalyzer.analyze_week_data *)

\* An export file: whether pandas can read it, which columns it has, and its
\* rows (media source, installs).
CsvRows == [source : SourceIds, installs : InstallValues]

CsvFiles ==
    [readable : {TRUE}, has_installs : {TRUE}, has_media : {TRUE},
     rows : SeqsUpTo(CsvRows, MaxCsvRows)]
    \cup [readable : {TRUE}, has_installs : {TRUE}, has_media : {FALSE},
          rows : SeqsUpTo(CsvRows, 1)]
    \cup [readable : {TRUE}, has_installs : {FALSE}, has_media : BOOLEAN,
          rows : {<<>>}]
    \cup [readable : {FALSE}, has_installs : {FALSE}, has_media : {FALSE},
          rows : {<<>>}]

\* mutant: the rows are counted, not their installs summed
ColumnSumCount(rows) == Len(rows)

\* df['installs appsflyer'].sum()
ColumnSum(rows) == SeqSum([i \in DOMAIN rows |-> rows[i].installs])

\* df.groupby('media-source')['installs appsflyer'].sum()
GroupBySum(rows) ==
    LET keys == {rows[i].source : i \in DOMAIN rows}
    IN  [k \in keys |->
            SeqSum([i \in DOMAIN rows |->
                       IF rows[i].source = k THEN rows[i].installs ELSE 0])]

\* the key orders sort_values(ascending=False) can leave in the dict
SortedDescOrders(f) ==
    {p \in PermsOf(DOMAIN f) :
        \A i, j \in DOMAIN p : i < j => f[p[i]] >= f[p[j]]}

AnalysisFails(csv) ==
    \/ ~csv.readable                          \* pd.read_csv raises
    \/ csv.has_media /\ ~csv.has_installs     \* KeyError in the groupby

\* media_order is the iteration order of the media_sources dict
analyze_week_data(csv, media_order) ==
    IF AnalysisFails(csv)
    THEN [error |-> TRUE]
    ELSE [total_installs |-> IF csv.has_installs THEN ColumnSum(csv.rows) ELSE 0,
          media_sources  |-> IF csv.has_media THEN GroupBySum(csv.rows) ELSE <<>>,
          media_order    |-> media_order,
          data_points    |-> Len(csv.rows)]

MediaOrders(csv) ==
    IF AnalysisFails(csv) \/ ~csv.has_media THEN {<<>>}
    ELSE SortedDescOrders(GroupBySum(csv.rows))

----------------------------------------------------------------------------
(* GA4AcquisitionHandler.get_new_users_by_channel *)

Ga4Rows == [channel : Ga4Channels, new_users : NewUserValues]

Ga4Responses == SeqsUpTo(Ga4Rows, MaxGa4Rows)

get_new_users_by_channel(rows) ==
    LET keys == {rows[i].channel : i \in DOMAIN rows}
    IN  [total_new_users |-> SeqSum([i \in DOMAIN rows |-> rows[i].new_users]),
         by_channel |->
            [k \in keys |->
                SeqSum([i \in DOMAIN rows |->
                           IF rows[i].channel = k THEN rows[i].new_users ELSE 0])]]

----------------------------------------------------------------------------
(* AcquisitionReconciler._perform_reconciliation *)

Insight(kind, channel, direction, amount, pct) ==
    [kind |-> kind, channel |-> channel, direction |-> direction,
     amount |-> amount, pct_tenths |-> pct]

\* mutant: the difference is taken A minus B
ChannelEntryAMinusB(af_value, ga4_value) ==
    LET channel_diff == af_value - ga4_value
    IN  [appsflyer |-> af_value,
         ga4 |-> ga4_value,
         difference |-> channel_diff,
         difference_percent |->
             IF af_value > 0 THEN Frac(channel_diff * 100, af_value) ELSE Zero]

\* mutant: a channel without A-side volume gets the percentage of its B side
ChannelEntryPercentOfB(af_value, ga4_value) ==
    LET channel_diff == ga4_value - af_value
    IN  [appsflyer |-> af_value,
         ga4 |-> ga4_value,
         difference |-> channel_diff,
         difference_percent |->
             IF af_value > 0 THEN Frac(channel_diff * 100, af_value)
             ELSE IF ga4_value > 0 THEN Frac(channel_diff * 100, ga4_value)
             ELSE Zero]

\* the entry of by_channel for one channel
ChannelEntry(af_value, ga4_value) ==
    LET channel_diff == ga4_value - af_value
    IN  [appsflyer |-> af_value,
         ga4 |-> ga4_value,
         difference |-> channel_diff,
         difference_percent |->
             IF af_value > 0 THEN Frac(channel_diff * 100, af_value) ELSE Zero]

\* mutant: the percentage is taken relative to the B side
SummaryRelativeToB(af_total, ga4_total) ==
    LET diff == ga4_total - af_total
    IN  [appsflyer_installs |-> af_total,
         ga4_new_users |-> ga4_total,
         difference |-> diff,
         difference_percent |->
             IF ga4_total > 0 THEN Frac(diff * 100, ga4_total) ELSE Zero]

\* the summary block
Summary(af_total, ga4_total) ==
    LET diff == ga4_total - af_total
    IN  [appsflyer_installs |-> af_total,
         ga4_new_users |-> ga4_total,
         difference |-> diff,
         difference_percent |->
             IF af_total > 0 THEN Frac(diff * 100, af_total) ELSE Zero]

\* mutant: an unlisted source falls into the listed channel 'Unassigned'
ChannelOfUnassigned(rm, source) == Get(rm, source, "Unassigned")

\* the channel a source is added to
ChannelOf(rm, source) == Get(rm, source, "Unmapped")

\* mutant: the bucket is assigned, not added to
NormalizeSourcesOverwrite(rm, media_sources) ==
    LET channels == {ChannelOf(rm, s) : s \in DOMAIN media_sources}
    IN  [c \in channels |->
            media_sources[CHOOSE s \in DOMAIN media_sources : ChannelOf(rm, s) = c]]

\* mutant: the buckets are kept between calls and added to again
NormalizeSourcesAccumulating(rm, media_sources) ==
    LET channels == {ChannelOf(rm, s) : s \in DOMAIN media_sources}
    IN  [c \in channels \cup DOMAIN af_by_channel |->
            Get(af_by_channel, c, 0)
                + SumOver(media_sources,
                          {s \in DOMAIN media_sources : ChannelOf(rm, s) = c})]

\* the loop over media_sources: af_by_channel
NormalizeSources(rm, media_sources) ==
    LET channels == {ChannelOf(rm, s) : s \in DOMAIN media_sources}
    IN  [c \in channels |->
            SumOver(media_sources,
                    {s \in DOMAIN media_sources : ChannelOf(rm, s) = c})]

\* mutant: the bucket is assigned in the loop, so the last source stays
NormalizeInOrderLastStays(rm, media_sources, order) ==
    LET channels == {ChannelOf(rm, order[i]) : i \in DOMAIN order}
        last(c) == CHOOSE i \in DOMAIN order :
                       /\ ChannelOf(rm, order[i]) = c
                       /\ \A j \in DOMAIN order :
                              ChannelOf(rm, order[j]) = c => j <= i
    IN  [c \in channels |-> media_sources[order[last(c)]]]

\* the loop over media_sources.items() taken in the given order: every
\* source is added to the bucket of its channel, one after the other
NormalizeInOrder(rm, media_sources, order) ==
    LET channels == {ChannelOf(rm, order[i]) : i \in DOMAIN order}
    IN  [c \in channels |->
            SeqSum([i \in DOMAIN order |->
                       IF ChannelOf(rm, order[i]) = c
                       THEN media_sources[order[i]] ELSE 0])]

\* mutant: only the first unlisted source is recorded
UnmappedSourcesFirstOnly(rm, media_sources, media_order) ==
    Take(SelectSeq([i \in DOMAIN media_order |->
                       [source |-> media_order[i],
                        installs |-> media_sources[media_order[i]]]],
                   LAMBDA e : ChannelOf(rm, e.source) = "Unmapped"), 1)

\* the loop over media_sources: unmapped_sources['appsflyer']
UnmappedSources(rm, media_sources, media_order) ==
    SelectSeq([i \in DOMAIN media_order |->
                  [source |-> media_order[i],
                   installs |-> media_sources[media_order[i]]]],
              LAMBDA e : ChannelOf(rm, e.source) = "Unmapped")

\* stable sort, largest |difference| first (list.sort with reverse=True)
RECURSIVE SortByAbsDifference(_)
SortByAbsDifference(s) ==
    IF s = <<>> THEN <<>>
    ELSE LET rest == SortByAbsDifference(Tail(s))
             x == Head(s)
             \* x goes before every element that is not strictly larger
             k == Cardinality({i \in DOMAIN rest :
                                  Abs(rest[i].difference) > Abs(x.difference)})
         IN  SubSeq(rest, 1, k) \o <<x>> \o SubSeq(rest, k + 1, Len(rest))

\* mutant: the two thresholds are not strict
IsMajorDiscrepancyNotStrict(data) ==
    /\ data.appsflyer > 50 \/ data.ga4 > 50
    /\ Abs(data.difference) >= 100
    /\ Abs(data.difference_percent.num) >= 20 * data.difference_percent.den

IsMajorDiscrepancy(data) ==
    /\ data.appsflyer > 50 \/ data.ga4 > 50
    /\ Abs(data.difference) > 100
    /\ FracAbsGT(data.difference_percent, 20)

_generate_insights(r, channel_order) ==
    LET summary == r.summary
        overall ==
            IF FracAbsGT(summary.difference_percent, 5)
            THEN Insight("overall", "",
                         IF summary.difference > 0 THEN "more" ELSE "fewer",
                         Abs(summary.difference),
                         Tenths(summary.difference_percent))
            ELSE Insight("aligned", "", "", 0, 0)
        candidates ==
            SelectSeq([i \in DOMAIN channel_order |->
                          [channel |-> channel_order[i],
                           difference |-> r.by_channel[channel_order[i]].difference,
                           percent |-> r.by_channel[channel_order[i]].difference_percent,
                           major |-> IsMajorDiscrepancy(r.by_channel[channel_order[i]])]],
                      LAMBDA d : d.major)
        top == Take(SortByAbsDifference(candidates), 3)
        unmapped == r.unmapped_sources.appsflyer
    IN  <<overall>>
        \o [i \in DOMAIN top |->
               Insight("channel", top[i].channel,
                       IF top[i].difference > 0 THEN "overreporting"
                                                ELSE "underreporting",
                       Abs(top[i].difference), Tenths(top[i].percent))]
        \o (IF unmapped # <<>>
            THEN <<Insight("unmapped", "", "",
                           SeqSum([i \in DOMAIN unmapped |-> unmapped[i].installs]),
                           0)>>
            ELSE <<>>)

Recommendation(kind, sources) == [kind |-> kind, sources |-> sources]

RECURSIVE ChannelRecommendations(_, _)
ChannelRecommendations(by_channel, channel_order) ==
    IF channel_order = <<>> THEN <<>>
    ELSE LET channel == Head(channel_order)
             data == by_channel[channel]
         IN  (IF channel = "Direct" /\ 2 * data.ga4 > 3 * data.appsflyer
              THEN <<Recommendation("direct_tracking", <<>>)>> ELSE <<>>)
             \o (IF channel = "Paid Search" /\ FracAbsGT(data.difference_percent, 30)
                 THEN <<Recommendation("paid_search_links", <<>>)>> ELSE <<>>)
             \o ChannelRecommendations(by_channel, Tail(channel_order))

\* mutant: the checks are alternatives: once the totals check has fired, the
\* channel checks are skipped
_generate_recommendations_exclusive(r, channel_order) ==
    LET unmapped == r.unmapped_sources.appsflyer
    IN  (IF 10 * r.summary.appsflyer_installs > 11 * r.summary.ga4_new_users
         THEN <<Recommendation("missing_ga4_tracking", <<>>)>>
         ELSE ChannelRecommendations(r.by_channel, channel_order))
        \o (IF unmapped # <<>>
            THEN <<Recommendation("map_sources",
                       [i \in DOMAIN Take(unmapped, 3) |-> unmapped[i].source])>>
            ELSE <<>>)

_generate_recommendations(r, channel_order) ==
    LET unmapped == r.unmapped_sources.appsflyer
    IN  (IF 10 * r.summary.appsflyer_installs > 11 * r.summary.ga4_new_users
         THEN <<Recommendation("missing_ga4_tracking", <<>>)>> ELSE <<>>)
        \o ChannelRecommendations(r.by_channel, channel_order)
        \o (IF unmapped # <<>>
            THEN <<Recommendation("map_sources",
                       [i \in DOMAIN Take(unmapped, 3) |-> unmapped[i].source])>>
            ELSE <<>>)

\* channel_order is the iteration order of the set all_channels, which is
\* also the insertion order of by_channel
_perform_reconciliation(rm, af, g, channel_order) ==
    LET media_sources == Get(af, "media_sources", <<>>)
        media_order == Get(af, "media_order", <<>>)
        ga4_channels == Get(g, "by_channel", <<>>)
        afc == NormalizeSources(rm, media_sources)
        base == [summary |-> Summary(Get(af, "total_installs", 0),
                                     Get(g, "total_new_users", 0)),
                 by_channel |->
                     [c \in Range(channel_order) |->
                         ChannelEntry(Get(afc, c, 0), Get(ga4_channels, c, 0))],
                 channel_order |-> channel_order,
                 unmapped_sources |->
                     [appsflyer |-> UnmappedSources(rm, media_sources, media_order),
                      ga4 |-> <<>>]]
    IN  [summary |-> base.summary,
         by_channel |-> base.by_channel,
         channel_order |-> channel_order,
         unmapped_sources |-> base.unmapped_sources,
         insights |-> _generate_insights(base, channel_order),
         recommendations |-> _generate_recommendations(base, channel_order)]

\* mutant: the channels of the GA4 side are not added
AllChannelsAppsflyerOnly(rm, af, g) ==
    DOMAIN NormalizeSources(rm, Get(af, "media_sources", <<>>))

\* all_channels = set(af_by_channel) | set(ga4['by_channel'])
AllChannels(rm, af, g) ==
    DOMAIN NormalizeSources(rm, Get(af, "media_sources", <<>>))
        \cup DOMAIN Get(g, "by_channel", <<>>)

----------------------------------------------------------------------------
(* Dicts handed to _perform_reconciliation directly *)

\* an AppsFlyer summary with the given totals per media source
AppsflyerSummary(media_sources, media_order) ==
    [total_installs |-> SumOver(media_sources, DOMAIN media_sources),
     media_sources  |-> media_sources,
     media_order    |-> media_order,
     data_points    |-> Len(media_order)]

Ga4Data(by_channel) ==
    [total_new_users |-> SumOver(by_channel, DOMAIN by_channel),
     by_channel |-> by_channel]

\* four listed sources, one per channel, against four GA4 channels: the
\* differences go from -700 to +400 and meet 100 and 20% exactly
Ga4Volumes == {300, 600, 850, 900}
DirectInstalls == {500, 1000}

ThresholdInputs ==
    {[af |-> AppsflyerSummary(
                 ("organic" :> d) @@ ("googleadwords_int" :> 500)
                     @@ ("facebook" :> 500) @@ ("emarsys" :> 500),
                 <<"organic", "googleadwords_int", "facebook", "emarsys">>),
      g |-> Ga4Data(("Direct" :> g1) @@ ("Paid Search" :> g2)
                        @@ ("Paid Social" :> g3) @@ ("Email" :> g4))] :
        d \in DirectInstalls, g1 \in Ga4Volumes, g2 \in Ga4Volumes,
        g3 \in Ga4Volumes, g4 \in Ga4Volumes}

\* sources the mapping table does not list, and their installs
UnlistedInstalls ==
    ("tiktokglobal_int" :> 40) @@ ("snapchat_int" :> 30)
        @@ ("bytedanceglobal_int" :> 0) @@ ("Apple Search Ads" :> 10)

\* summaries with any of the unlisted sources in any order, with or without
\* a listed source before them
UnlistedInputs ==
    {[af |-> AppsflyerSummary(
                 [s \in Range(listed \o order) |->
                     IF s = "organic" THEN 1000 ELSE UnlistedInstalls[s]],
                 listed \o order),
      g |-> Ga4Data("Direct" :> 700)] :
        listed \in {<<>>, <<"organic">>},
        order \in UNION {PermsOf(S) : S \in SUBSET DOMAIN UnlistedInstalls}}

\* a large Paid Social source: the totals and Direct differ widely while Paid
\* Search stays within 30%
PaidSocialHeavyInputs ==
    {[af |-> AppsflyerSummary(
                 ("organic" :> 500) @@ ("googleadwords_int" :> 500)
                     @@ ("facebook" :> 2000),
                 <<"organic", "googleadwords_int", "facebook">>),
      g |-> Ga4Data(("Direct" :> 900) @@ ("Paid Search" :> 600)
                        @@ ("Paid Social" :> 300))]}

ReconciliationInputs == ThresholdInputs \cup UnlistedInputs \cup PaidSocialHeavyInputs

----------------------------------------------------------------------------
(* AcquisitionReconciler.format_reconciliation_report *)

\* sorted(by_channel.items(), key=ga4, reverse=True): stable
RECURSIVE SortByGa4(_, _)
SortByGa4(by_channel, order) ==
    IF order = <<>> THEN <<>>
    ELSE LET rest == SortByGa4(by_channel, Tail(order))
             x == Head(order)
             k == Cardinality({i \in DOMAIN rest :
                                  by_channel[rest[i]].ga4 > by_channel[x].ga4})
         IN  SubSeq(rest, 1, k) \o <<x>> \o SubSeq(rest, k + 1, Len(rest))

\* mutant: the table keeps the channels without volume
format_reconciliation_report_unfiltered(r) ==
    [summary |-> [appsflyer_installs |-> r.summary.appsflyer_installs,
                  ga4_new_users |-> r.summary.ga4_new_users,
                  difference |-> r.summary.difference,
                  difference_percent |-> Tenths(r.summary.difference_percent)],
     table_rows |-> SortByGa4(r.by_channel, r.channel_order),
     insights |-> r.insights,
     recommendations |-> r.recommendations,
     unmapped |-> Take(r.unmapped_sources.appsflyer, 5)]

format_reconciliation_report(r) ==
    LET sorted_channels == SortByGa4(r.by_channel, r.channel_order)
    IN  [summary |-> [appsflyer_installs |-> r.summary.appsflyer_installs,
                      ga4_new_users |-> r.summary.ga4_new_users,
                      difference |-> r.summary.difference,
                      difference_percent |-> Tenths(r.summary.difference_percent)],
         table_rows |->
             SelectSeq(sorted_channels,
                       LAMBDA c : r.by_channel[c].appsflyer > 0
                                     \/ r.by_channel[c].ga4 > 0),
         insights |-> r.insights,
         recommendations |-> r.recommendations,
         unmapped |-> Take(r.unmapped_sources.appsflyer, 5)]

----------------------------------------------------------------------------
(* GA4AcquisitionHandler.compare_with_appsflyer *)

\* the local channel_map of compare_with_appsflyer
CompareChannelMap ==
    ("Organic Search" :> <<"organic", "google_organic_seo",
                           "duckduckgo_organic_seo", "yahoo_organic_seo">>) @@
    ("Paid Search" :> <<"googleadwords_int", "google_ads">>) @@
    ("Paid Social" :> <<"Facebook Ads", "facebook">>) @@
    ("Email" :> <<"emarsys", "bloomreach", "transactional_postmark">>) @@
    ("Referral" :> <<"website-thortful", "card-back-thortful">>) @@
    ("Direct" :> <<"QR_code", "print">>) @@
    ("Affiliates" :> <<"impactradius_int">>)

compare_with_appsflyer(ga4_data, appsflyer_data) ==
    LET ga4_channels == Get(ga4_data, "by_channel", <<>>)
        appsflyer_sources == Get(appsflyer_data, "media_sources", <<>>)
        count(c) ==
            IF c \in DOMAIN CompareChannelMap
            THEN SeqSum([i \in DOMAIN CompareChannelMap[c] |->
                            Get(appsflyer_sources, CompareChannelMap[c][i], 0)])
            ELSE 0
        s == Summary(Get(appsflyer_data, "total_installs", 0),
                     Get(ga4_data, "total_new_users", 0))
    IN  [summary |-> s,
         channel_comparison |->
             [c \in DOMAIN ga4_channels |-> ChannelEntry(count(c), ga4_channels[c])]]

----------------------------------------------------------------------------
(* Dates: datetime, timedelta, isocalendar, fromisocalendar, strftime *)

IsLeap(y) == (y % 4 = 0 /\ y % 100 # 0) \/ y % 400 = 0

DaysInMonth(y, m) ==
    IF m = 2 THEN (IF IsLeap(y) THEN 29 ELSE 28)
    ELSE IF m \in {4, 6, 9, 11} THEN 30 ELSE 31

RECURSIVE DaysBeforeMonth(_, _)
DaysBeforeMonth(y, m) ==
    IF m = 1 THEN 0 ELSE DaysBeforeMonth(y, m - 1) + DaysInMonth(y, m - 1)

\* days before January 1st of year y, counted from 0001-01-01
DaysBeforeYear(y) ==
    LET p == y - 1 IN p * 365 + p \div 4 - p \div 100 + p \div 400

\* date.toordinal(): 0001-01-01 is day 1
Ordinal(y, m, d) == DaysBeforeYear(y) + DaysBeforeMonth(y, m) + d

\* date.weekday(): Monday is 0
Weekday(ord) == (ord + 6) % 7

\* Monday of ISO week 1: the week of January 4th
Week1Monday(y) == Ordinal(y, 1, 4) - Weekday(Ordinal(y, 1, 4))

WeeksInIsoYear(y) == (Week1Monday(y + 1) - Week1Monday(y)) \div 7

\* the year of an ordinal
YearOf(ord) == CHOOSE y \in (ord \div 366)..(ord \div 365 + 1) :
                   DaysBeforeYear(y) < ord /\ ord <= DaysBeforeYear(y + 1)
MonthOf(ord) ==
    LET y == YearOf(ord)
    IN  CHOOSE m \in 1..12 :
            /\ DaysBeforeYear(y) + DaysBeforeMonth(y, m) < ord
            /\ ord <= DaysBeforeYear(y) + DaysBeforeMonth(y, m) + DaysInMonth(y, m)
DayOf(ord) ==
    ord - DaysBeforeYear(YearOf(ord)) - DaysBeforeMonth(YearOf(ord), MonthOf(ord))

Pad2(n) == IF n < 10 THEN "0" \o ToString(n) ELSE ToString(n)

\* strftime('%Y-%m-%d')
FormatDate(ord) ==
    ToString(YearOf(ord)) \o "-" \o Pad2(MonthOf(ord)) \o "-" \o Pad2(DayOf(ord))

\* datetime.fromisocalendar(year, week, 1) raises ValueError for a week the
\* ISO year does not have
IsoWeekExists(year, week) == week >= 1 /\ week <= WeeksInIsoYear(year)

fromisocalendar(year, week) == Week1Monday(year) + 7 * (week - 1)

\* date.isocalendar(): the ISO year and ISO week of a day
IsoYear(ord) ==
    CHOOSE y \in (YearOf(ord) - 1)..(YearOf(ord) + 1) :
        Week1Monday(y) <= ord /\ ord < Week1Monday(y + 1)
IsoWeek(ord) == (ord - Week1Monday(IsoYear(ord))) \div 7 + 1

\* a (Monday, Sunday) pair of days, or the ValueError of a computation
WeekRange(monday, sunday) == [raised |-> FALSE, start |-> monday, end |-> sunday]
InvalidWeek == [raised |-> TRUE, start |-> 0, end |-> 0]

\* AmplitudeDataHandler.get_week_date_range
get_week_date_range(year, week) ==
    LET jan4 == Ordinal(year, 1, 4)
        week1_monday == jan4 - Weekday(jan4)
        target_monday == week1_monday + 7 * (week - 1)
        target_sunday == target_monday + 6
    IN  WeekRange(target_monday, target_sunday)

\* AppsFlyerWeeklyAnalyzer.get_iso_week_dates
get_iso_week_dates(year, week) ==
    LET jan4 == Ordinal(year, 1, 4)
        days_to_monday == Weekday(jan4) % 7
        week1_monday == jan4 - days_to_monday
        target_monday == week1_monday + 7 * (week - 1)
        target_sunday == target_monday + 6
    IN  WeekRange(target_monday, target_sunday)

\* DatePickerHandler.get_week_dates
get_week_dates(week_number, year) ==
    LET jan1 == Ordinal(year, 1, 1)
        first_thursday == jan1 + ((3 - Weekday(jan1) + 7) % 7)
        week1_monday == first_thursday - 3
        target_monday == week1_monday + 7 * (week_number - 1)
        target_sunday == target_monday + 6
    IN  WeekRange(target_monday, target_sunday)

\* the week start of extract_platform_metrics:
\* datetime.fromisocalendar(year, target_week, 1); the week ends 6 days later
ExtractorWeekStart(year, target_week) ==
    IF ~IsoWeekExists(year, target_week) THEN InvalidWeek
    ELSE WeekRange(fromisocalendar(year, target_week),
                   fromisocalendar(year, target_week) + 6)

WeekFunctions ==
    {"get_week_date_range", "get_iso_week_dates", "get_week_dates", "target_week_start"}

WeekDates(function, year, week) ==
    CASE function = "get_week_date_range" -> get_week_date_range(year, week)
      [] function = "get_iso_week_dates" -> get_iso_week_dates(year, week)
      [] function = "get_week_dates" -> get_week_dates(week, year)
      [] function = "target_week_start" -> ExtractorWeekStart(year, week)

\* 2020 and 2026 have 53 ISO weeks, the years between have 52
DateYears == 2020..2026
WeekNumbers == 1..53

----------------------------------------------------------------------------
(* The most recently completed week relative to now *)

WeekInfo(current_year, current_week, analysis_year, analysis_week) ==
    [current_year |-> current_year, current_week |-> current_week,
     analysis_year |-> analysis_year, analysis_week |-> analysis_week]

\* AppsFlyerWeeklyAnalyzer.get_current_week_info, with datetime.now() = now
get_current_week_info(now) ==
    LET current_year == IsoYear(now)
        current_week == IsoWeek(now)
    IN  IF current_week = 1
        THEN LET prev_year == current_year - 1
                 dec31 == Ordinal(prev_year, 12, 31)
             IN  WeekInfo(current_year, current_week, prev_year, IsoWeek(dec31))
        ELSE WeekInfo(current_year, current_week, current_year, current_week - 1)

\* get_week_info of enhanced_analyzer.py
enhanced_analyzer_get_week_info(now) ==
    LET current_year == IsoYear(now)
        current_week == IsoWeek(now)
    IN  IF current_week = 1
        THEN LET prev_year == current_year - 1
                 dec31 == Ordinal(prev_year, 12, 31)
             IN  WeekInfo(current_year, current_week, prev_year, IsoWeek(dec31))
        ELSE WeekInfo(current_year, current_week, current_year, current_week - 1)

\* get_week_info of enhanced_weekly_analyzer.py
enhanced_weekly_analyzer_get_week_info(now) ==
    LET analysis_date == now - 7
    IN  WeekInfo(IsoYear(now), IsoWeek(now),
                 IsoYear(analysis_date), IsoWeek(analysis_date))

\* the default target of get_weekly_yoy_data: get_iso_week_info(today - 7 days)
default_target_week(now) ==
    LET last_week == now - 7
    IN  WeekInfo(IsoYear(now), IsoWeek(now), IsoYear(last_week), IsoWeek(last_week))

WeekInfoFunctions ==
    {"get_current_week_info", "enhanced_analyzer.get_week_info",
     "enhanced_weekly_analyzer.get_week_info", "default_target_week"}

WeekInfoOf(function, now) ==
    CASE function = "get_current_week_info" -> get_current_week_info(now)
      [] function = "enhanced_analyzer.get_week_info" ->
             enhanced_analyzer_get_week_info(now)
      [] function = "enhanced_weekly_analyzer.get_week_info" ->
             enhanced_weekly_analyzer_get_week_info(now)
      [] function = "default_target_week" -> default_target_week(now)

\* the days on which a report can be started: every day of the years of the
\* model
Nows == Ordinal(2020, 1, 1)..Ordinal(2026, 12, 31)

----------------------------------------------------------------------------
(* Chart payloads.  A payload is the sequence of its "\r\n"-separated lines; *)
(* a line is a sequence of tokens: single characters (",", quote, "%",      *)
(* ".", "-", digits) and words that the code only tests as substrings.      *)

QUOTE == "\""

Digits == {"0", "1", "2", "3", "4", "5", "6", "7", "8", "9"}

DigitValue(t) ==
    CASE t = "0" -> 0 [] t = "1" -> 1 [] t = "2" -> 2 [] t = "3" -> 3
      [] t = "4" -> 4 [] t = "5" -> 5 [] t = "6" -> 6 [] t = "7" -> 7
      [] t = "8" -> 8 [] t = "9" -> 9

\* str.split(sep) of a token sequence
RECURSIVE Split(_, _)
Split(line, sep) ==
    IF \A i \in DOMAIN line : line[i] # sep THEN <<line>>
    ELSE LET k == CHOOSE i \in DOMAIN line :
                      line[i] = sep /\ \A j \in 1..(i - 1) : line[j] # sep
         IN  <<SubSeq(line, 1, k - 1)>> \o Split(SubSeq(line, k + 1, Len(line)), sep)

\* str.strip('"')
RECURSIVE StripQuotes(_)
StripQuotes(cell) ==
    IF cell # <<>> /\ Head(cell) = QUOTE THEN StripQuotes(Tail(cell))
    ELSE IF cell # <<>> /\ cell[Len(cell)] = QUOTE
         THEN StripQuotes(SubSeq(cell, 1, Len(cell) - 1))
         ELSE cell

\* .strip('"').replace('%', '').replace(',', '')
CleanCell(cell) ==
    SelectSeq(StripQuotes(cell), LAMBDA t : t # "%" /\ t # ",")

RECURSIVE DigitsValue(_)
DigitsValue(ds) ==
    IF ds = <<>> THEN 0
    ELSE 10 * DigitsValue(SubSeq(ds, 1, Len(ds) - 1)) + DigitValue(ds[Len(ds)])

\* float(): an optional sign, digits with at most one decimal point and at
\* least one digit; anything else is a ValueError
IsFloatText(toks) ==
    LET body == IF toks # <<>> /\ Head(toks) = "-" THEN Tail(toks) ELSE toks
    IN  /\ \A i \in DOMAIN body : body[i] \in Digits \cup {"."}
        /\ Cardinality({i \in DOMAIN body : body[i] = "."}) <= 1
        /\ \E i \in DOMAIN body : body[i] \in Digits

\* the value of a float text in thousandths (texts carry at most 3 decimals)
FloatValue(toks) ==
    LET neg == toks # <<>> /\ Head(toks) = "-"
        body == IF neg THEN Tail(toks) ELSE toks
        parts == Split(body, ".")
        int_part == DigitsValue(parts[1])
        frac == IF Len(parts) > 1 THEN parts[2] ELSE <<>>
        frac3 == [i \in 1..3 |-> IF i <= Len(frac) THEN frac[i] ELSE "0"]
        magnitude == 1000 * int_part + DigitsValue(frac3)
    IN  IF neg THEN -magnitude ELSE magnitude

Contains(line, word) == \E i \in DOMAIN line : line[i] = word

\* '"\tApp"' in line: the word between two quotes
ContainsQuoted(line, word) ==
    \E i \in DOMAIN line :
        /\ i + 2 <= Len(line)
        /\ line[i] = QUOTE /\ line[i + 1] = word /\ line[i + 2] = QUOTE

\* csv_data.strip().split('\r\n'): leading and trailing empty lines go, and
\* an all-empty text leaves the single empty line
RECURSIVE StripLines(_)
StripLines(lines) ==
    IF lines = <<>> THEN <<>>
    ELSE IF Head(lines) = <<>> THEN StripLines(Tail(lines))
    ELSE IF lines[Len(lines)] = <<>> THEN StripLines(SubSeq(lines, 1, Len(lines) - 1))
    ELSE lines

SplitLines(csv_data) ==
    IF StripLines(csv_data) = <<>> THEN << <<>> >> ELSE StripLines(csv_data)

----------------------------------------------------------------------------
(* AmplitudeDataHandler.extract_platform_metrics *)

Platforms == <<"apps", "web", "combined">>

NoColumn == -1

Metrics(a, w, c) == [raised |-> FALSE, apps |-> a, web |-> w, combined |-> c]
ZeroMetrics == Metrics(0, 0, 0)
RaisedMetrics == [raised |-> TRUE, apps |-> 0, web |-> 0, combined |-> 0]

\* the first line with a date marker, 0 when there is none
HeaderIndex(lines) ==
    IF \E i \in DOMAIN lines : Contains(lines[i], "T00:00:00")
    THEN CHOOSE i \in DOMAIN lines :
             /\ Contains(lines[i], "T00:00:00")
             /\ \A j \in 1..(i - 1) : ~Contains(lines[j], "T00:00:00")
    ELSE 0

\* the 0-based index of the first header cell with the date, else NoColumn
TargetDateColumn(header_row, target_week_start) ==
    LET header_cols == Split(header_row, ",")
        hits == {i \in DOMAIN header_cols : Contains(header_cols[i], target_week_start)}
    IN  IF hits = {} THEN NoColumn
        ELSE (CHOOSE i \in hits : \A j \in hits : i <= j) - 1

\* the platform a line is assigned to by the if/elif chain, "" for none
PlatformOfLine(line) ==
    IF Contains(line, "Apps Only") \/ ContainsQuoted(line, "\tApp") THEN "apps"
    ELSE IF Contains(line, "Web Only") \/ ContainsQuoted(line, "\tWeb") THEN "web"
    ELSE IF Contains(line, "App + Web") THEN "combined"
    ELSE ""

\* platform_data[platform]: every matching line overwrites the entry, so the
\* last one stays; 0 when the platform has no line
PlatformLine(lines, platform) ==
    LET hits == {i \in DOMAIN lines : PlatformOfLine(lines[i]) = platform}
    IN  IF hits = {} THEN 0 ELSE CHOOSE i \in hits : \A j \in hits : j <= i

\* the fallback loop: for i in range(len(row_data) - 1, 0, -1)
RECURSIVE FallbackScan(_, _)
FallbackScan(row_data, i) ==
    IF i < 2 THEN 0      \* index 1 is the first column (Python index 0)
    ELSE LET value_str == CleanCell(row_data[i])
         IN  IF value_str # <<>> /\ IsFloatText(value_str)
             THEN FloatValue(value_str)
             ELSE FallbackScan(row_data, i - 1)

\* mutant: a cell of the located column that is no number is skipped by
\* the backward scan instead of giving 0
PlatformValueAlwaysScans(row, target_date_column) ==
    LET row_data == Split(row, ",")
    IN  IF target_date_column # NoColumn /\ target_date_column # 0
               /\ target_date_column < Len(row_data)
        THEN LET value_str == CleanCell(row_data[target_date_column + 1])
             IN  IF value_str = <<>> THEN 0
                 ELSE IF IsFloatText(value_str) THEN FloatValue(value_str)
                 ELSE FallbackScan(row_data, Len(row_data))
        ELSE FallbackScan(row_data, Len(row_data))

\* the body of the loop over platform_data.items()
PlatformValue(row, target_date_column) ==
    LET row_data == Split(row, ",")
    IN  IF target_date_column # NoColumn /\ target_date_column # 0
               /\ target_date_column < Len(row_data)
        THEN LET value_str == CleanCell(row_data[target_date_column + 1])
             IN  IF value_str = <<>> THEN 0
                 ELSE IF IsFloatText(value_str) THEN FloatValue(value_str)
                 ELSE 0       \* ValueError: result[platform] = 0
        ELSE FallbackScan(row_data, Len(row_data))

\* mutant: the test on the number of lines is missing
extract_platform_metrics_any_length(csv_data, year, target_week) ==
    IF csv_data = <<>> THEN ZeroMetrics
    ELSE LET lines == SplitLines(csv_data)
             h == HeaderIndex(lines)
         IN  IF h # 0 /\ ~IsoWeekExists(year, target_week) THEN RaisedMetrics
             ELSE LET column ==
                          IF h = 0 THEN NoColumn
                          ELSE TargetDateColumn(lines[h],
                                   FormatDate(fromisocalendar(year, target_week)))
                      value(platform) ==
                          IF PlatformLine(lines, platform) = 0 THEN 0
                          ELSE PlatformValue(lines[PlatformLine(lines, platform)], column)
                  IN  Metrics(value("apps"), value("web"), value("combined"))

extract_platform_metrics(csv_data, year, target_week) ==
    IF csv_data = <<>> THEN ZeroMetrics
    ELSE LET lines == SplitLines(csv_data)
             h == HeaderIndex(lines)
         IN  IF Len(lines) < 4 THEN ZeroMetrics
             ELSE IF h # 0 /\ ~IsoWeekExists(year, target_week) THEN RaisedMetrics
             ELSE LET column ==
                          IF h = 0 THEN NoColumn
                          ELSE TargetDateColumn(lines[h],
                                   FormatDate(fromisocalendar(year, target_week)))
                      value(platform) ==
                          IF PlatformLine(lines, platform) = 0 THEN 0
                          ELSE PlatformValue(lines[PlatformLine(lines, platform)], column)
                  IN  Metrics(value("apps"), value("web"), value("combined"))

----------------------------------------------------------------------------
(* AmplitudeDataHandler.calculate_platform_yoy_comparison *)

Null == [kind |-> "null", tenths |-> 0]
Number(t) == [kind |-> "number", tenths |-> t]
ZeroDivisionError == [kind |-> "raised", tenths |-> 0]

\* n / d rounded to a whole number, for a divisor of either sign
RoundQuotient(n, d) ==
    IF d > 0 THEN RoundHalfEven(n, d) ELSE RoundHalfEven(-n, -d)

\* ((current - previous) / previous) * 100, rounded to one decimal: in tenths
PercentChange(current_value, previous_value) ==
    IF previous_value = 0 THEN ZeroDivisionError
    ELSE Number(RoundQuotient((current_value - previous_value) * 1000, previous_value))

\* (current - previous) * 100, rounded to one decimal: in tenths
PointsChange(current_value, previous_value) ==
    Number(RoundQuotient((current_value - previous_value) * 1000, 1000))

\* mutant: the zero-baseline test is missing
YoyChangeUnguarded(current_value, previous_value, is_conversion) ==
    IF is_conversion THEN PointsChange(current_value, previous_value)
    ELSE PercentChange(current_value, previous_value)

\* mutant: a rate is compared with the formula of a count
YoyChangeAlwaysPercent(current_value, previous_value, is_conversion) ==
    IF previous_value = 0 THEN Null
    ELSE PercentChange(current_value, previous_value)

YoyChange(current_value, previous_value, is_conversion) ==
    IF previous_value = 0 THEN Null
    ELSE IF is_conversion THEN PointsChange(current_value, previous_value)
    ELSE PercentChange(current_value, previous_value)

PlatformComparison(current_value, previous_value, is_conversion) ==
    [current |-> current_value,
     previous |-> previous_value,
     yoy_change |-> YoyChange(current_value, previous_value, is_conversion)]

\* the call: None for a missing payload, an uncaught ValueError of an
\* extraction, or the dict of the three platforms
calculate_platform_yoy_comparison(current_data, previous_data, is_conversion, target_week) ==
    LET current_metrics == extract_platform_metrics(current_data, 2025, target_week)
        previous_metrics == extract_platform_metrics(previous_data, 2024, target_week)
        comparisons ==
            [platform \in Range(Platforms) |->
                PlatformComparison(current_metrics[platform],
                                   previous_metrics[platform], is_conversion)]
    IN  IF current_data = <<>> \/ previous_data = <<>>
        THEN [status |-> "none", platforms |-> <<>>]
        ELSE IF current_metrics.raised \/ previous_metrics.raised
        THEN [status |-> "raised", platforms |-> <<>>]
        ELSE IF \E platform \in Range(Platforms) :
                    comparisons[platform].yoy_change.kind = "raised"
        THEN [status |-> "raised", platforms |-> <<>>]
        ELSE [status |-> "result", platforms |-> comparisons]

----------------------------------------------------------------------------
(* Chart payloads of the model *)

Quoted(toks) == <<QUOTE>> \o toks \o <<QUOTE>>

RECURSIVE JoinCells(_)
JoinCells(cells) ==
    IF Len(cells) = 1 THEN cells[1]
    ELSE cells[1] \o <<",">> \o JoinCells(Tail(cells))

\* the weeks whose columns the charts of the model carry
FirstChartWeek == 28
SecondChartWeek == 29

HeaderLine(year) ==
    JoinCells(<<Quoted(<<"Segment">>),
                Quoted(<<FormatDate(fromisocalendar(year, FirstChartWeek)), "T00:00:00">>),
                Quoted(<<FormatDate(fromisocalendar(year, SecondChartWeek)), "T00:00:00">>)>>)

DataLine(label, first, second) ==
    JoinCells(<<Quoted(<<label>>), Quoted(first), Quoted(second)>>)

MetaLine == Quoted(<<"Weekly Sessions">>)

\* cell texts: 0, 0.30, 0.40, 30, 40
AppsTexts ==
    {<<"0">>, <<"0", ".", "3", "0">>, <<"0", ".", "4", "0">>, <<"3", "0">>, <<"4", "0">>}
\* 30 and an empty cell
WebTexts == {<<"3", "0">>, <<>>}
\* 18.7% and a cell that is no number
CombinedTexts == {<<"1", "8", ".", "7", "%">>, <<"n/a">>}

ChartPayload(year, a1, a2, w, c) ==
    <<MetaLine, MetaLine, HeaderLine(year),
      DataLine("Apps Only", a1, a2),
      DataLine("Web Only", w, w),
      DataLine("App + Web", c, c)>>

\* a chart without date header: the parser falls back to the last cell
HeaderlessPayload ==
    <<MetaLine, MetaLine, Quoted(<<"Segment">>),
      DataLine("Apps Only", <<"3", "0">>, <<"4", "0">>),
      DataLine("Web Only", <<"3", "0">>, <<>>),
      DataLine("App + Web", <<"n/a">>, <<"n/a">>)>>

Payloads(year) ==
    {ChartPayload(year, a1, a2, w, c) :
        a1 \in {<<"0">>, <<"3", "0">>}, a2 \in AppsTexts,
        w \in WebTexts, c \in CombinedTexts}
    \cup {HeaderlessPayload, <<>>}

\* week 53 exists in neither 2025 nor 2024
TargetWeeks == {FirstChartWeek, SecondChartWeek, 53}

----------------------------------------------------------------------------
(* AmplitudeDataHandler.get_weekly_yoy_data and                             *)
(* AmplitudeAnalyzer.analyze_weekly_data                                    *)

NoComparison == [status |-> "none", platforms |-> <<>>]

\* the four comparisons of the fetched charts.  The user-conversion charts
\* of the model carry no series named Previous, so the chart is read with
\* extract_platform_metrics.
WeeklyComparisons(results, target_week) ==
    [sessions |->
         calculate_platform_yoy_comparison(results.sessions_current,
             results.sessions_previous, FALSE, target_week),
     sessions_per_user |->
         calculate_platform_yoy_comparison(results.sessions_per_user_current,
             results.sessions_per_user_previous, FALSE, target_week),
     session_conversion |->
         calculate_platform_yoy_comparison(results.session_conversion_current,
             results.session_conversion_previous, TRUE, target_week),
     user_conversion |->
         IF results.user_conversion = <<>> THEN NoComparison
         ELSE LET m == extract_platform_metrics(results.user_conversion, 2025,
                                                target_week)
              IN  IF m.raised THEN [status |-> "raised", platforms |-> <<>>]
                  ELSE [status |-> "current_only", platforms |-> m]]

\* the dict returned for the week, or the ValueError of an extraction
WeeklyReportOf(comparisons, target_week, target_year) ==
    LET range == get_week_date_range(target_year, target_week)
    IN  IF \E m \in DOMAIN comparisons : comparisons[m].status = "raised"
        THEN [raised |-> TRUE, metrics |-> <<>>, iso_week |-> target_week,
              year |-> target_year, date_range |-> <<>>]
        ELSE [raised |-> FALSE, metrics |-> comparisons, iso_week |-> target_week,
              year |-> target_year,
              date_range |-> <<FormatDate(range.start), FormatDate(range.end)>>]

\* the comparisons are computed once and the report is built from them
WeeklyReport(results, target_week, target_year) ==
    CHOOSE r \in {WeeklyReportOf(comparisons, target_week, target_year) :
                     comparisons \in {WeeklyComparisons(results, target_week)}} : TRUE

get_weekly_yoy_data(results, target_week, target_year) ==
    WeeklyReport(results, target_week, target_year)

analyze_weekly_data(results, target_week, target_year) ==
    WeeklyReport(results, target_week, target_year)

\* the years whose weeks the "current" charts show; the "previous" charts
\* show the same weeks one year earlier
ChartYears == {2025, 2026}
TargetYears == {2025, 2026}

\* a chart with 30 under the first chart week and 30 or 40 under the
\* second, or no chart at all
WeeklyCharts(year) ==
    {ChartPayload(year, <<"3", "0">>, a2, <<"3", "0">>, <<"1", "8", ".", "7", "%">>) :
        a2 \in {<<"3", "0">>, <<"4", "0">>}}
    \cup {<<>>}

RateChart(year) ==
    ChartPayload(year, <<"0", ".", "3", "0">>, <<"0", ".", "4", "0">>,
                 <<"3", "0">>, <<"1", "8", ".", "7", "%">>)

\* what get_chart_data returns for the seven charts
ChartResults ==
    UNION {[sessions_current : WeeklyCharts(year),
            sessions_previous : WeeklyCharts(year - 1),
            sessions_per_user_current : {ChartPayload(year, <<"3", "0">>, <<"4", "0">>,
                                             <<"3", "0">>, <<"1", "8", ".", "7", "%">>)},
            sessions_per_user_previous : {ChartPayload(year - 1, <<"4", "0">>, <<"3", "0">>,
                                              <<"3", "0">>, <<"1", "8", ".", "7", "%">>)},
            session_conversion_current : {RateChart(year)},
            session_conversion_previous : {RateChart(year - 1)},
            user_conversion : {<<>>, RateChart(year)}] : year \in ChartYears}

----------------------------------------------------------------------------
(* Chart payloads handed to extract_platform_metrics on its own *)

\* cell texts: 1234, 30, a cell that is no number, an empty cell, and 1,234
\* written with its thousands separator
CellTexts ==
    {<<"1", "2", "3", "4">>, <<"3", "0">>, <<"n/a">>, <<>>,
     <<"1", ",", "2", "3", "4">>}

\* a header whose first cell (column 0) is the date of the second chart week
DateFirstHeader(year) ==
    JoinCells(<<Quoted(<<FormatDate(fromisocalendar(year, SecondChartWeek)), "T00:00:00">>),
                Quoted(<<"Segment">>),
                Quoted(<<FormatDate(fromisocalendar(year, FirstChartWeek)), "T00:00:00">>)>>)

\* a header line without any date marker
PlainHeader == JoinCells(<<Quoted(<<"Segment">>), Quoted(<<"Value">>), Quoted(<<"Value">>)>>)

Layouts == {"dated", "date_first", "headerless"}

LayoutHeader(layout, year) ==
    CASE layout = "dated" -> HeaderLine(year)
      [] layout = "date_first" -> DateFirstHeader(year)
      [] layout = "headerless" -> PlainHeader

\* a data line: the cells under the first and the second chart week
LayoutLine(layout, label, first, second) ==
    IF layout = "date_first"
    THEN JoinCells(<<Quoted(second), Quoted(<<label>>), Quoted(first)>>)
    ELSE DataLine(label, first, second)

\* a chart of the layout; with duplicate, a second line carries the label
\* of the first platform
LayoutPayload(layout, a1, a2, duplicate, w) ==
    <<MetaLine, MetaLine, LayoutHeader(layout, 2025),
      LayoutLine(layout, "Apps Only", a1, a2)>>
    \o (IF duplicate
        THEN <<LayoutLine(layout, "Apps Only", <<"4", "0">>, <<"4", "0">>)>>
        ELSE <<>>)
    \o <<LayoutLine(layout, "Web Only", <<"3", "0">>, w),
         LayoutLine(layout, "App + Web", <<"1", "8", ".", "7", "%">>,
                                         <<"1", "8", ".", "7", "%">>)>>

\* payloads of fewer than 4 lines: header and numeric rows, cut short, with
\* and without empty lines around them
ShortPayloads ==
    LET h == HeaderLine(2025)
        a == DataLine("Apps Only", <<"3", "0">>, <<"1", "2", "3", "4">>)
        w == DataLine("Web Only", <<"3", "0">>, <<"3", "0">>)
    IN  {<<>>, << <<>>, <<>> >>, <<a>>, <<h, a>>, <<h, a, w>>,
         <<h, a, w, <<>>, <<>> >>, << <<>>, h, a, w>>, <<MetaLine, h, a>>}

\* charts whose first platform row ends before the column of the second
\* chart week
RaggedPayloads ==
    {<<MetaLine, MetaLine, HeaderLine(2025),
       JoinCells(<<Quoted(<<"Apps Only">>), Quoted(a1)>>),
       DataLine("Web Only", <<"3", "0">>, <<"3", "0">>),
       DataLine("App + Web", <<"1", "8", ".", "7", "%">>, <<"1", "8", ".", "7", "%">>)>> :
        a1 \in CellTexts}

ExtractPayloads ==
    {LayoutPayload(layout, a1, a2, duplicate, w) :
        layout \in Layouts, a1 \in CellTexts, a2 \in CellTexts,
        duplicate \in BOOLEAN, w \in {<<"3", "0">>, <<"n/a">>}}
    \cup ShortPayloads \cup RaggedPayloads

ExtractYears == {2025, 2024}

----------------------------------------------------------------------------
(* The report generators: AmplitudeAnalyzer.generate_executive_summary and
   send_to_slack, UnifiedAnalyzer.generate_comparative_summary and
   _check_trend_alignment. A report is modelled by the deltas it renders:
   which metric of which platform, and whether as "up" or "down". *)

ReportMetrics == {"sessions", "session_conversion", "sessions_per_user",
                  "user_conversion"}
ConversionMetrics == {"session_conversion", "user_conversion"}

\* "up" if yoy_change > 0 else "down"
Direction(yoy_change) == IF yoy_change.tenths > 0 THEN "up" ELSE "down"

Delta(analysis_metrics, metric, platform) ==
    [metric |-> metric, platform |-> platform,
     direction |-> Direction(analysis_metrics[metric][platform].yoy_change)]

\* yoy_change is None
IsNone(analysis_metrics, metric, platform) == analysis_metrics[metric][platform].yoy_change = Null

Rendered(analysis_metrics, positions) == {Delta(analysis_metrics, p[1], p[2]) : p \in positions}

ReportReturned(deltas, result) ==
    [raised |-> FALSE, error |-> "none", deltas |-> deltas, result |-> result]

ReportRaised(error) ==
    [raised |-> TRUE, error |-> error, deltas |-> {}, result |-> "none"]

\* every delta is rendered under a test of yoy_change against None; the
\* conversion of a platform is rendered on the line of its sessions
generate_executive_summary(analysis_metrics) ==
    LET combined == {<<m, "combined">> : m \in ReportMetrics}
        sessions == {<<"sessions", p>> : p \in {"web", "apps"}}
        conversion ==
            {<<"session_conversion", p>> :
                p \in {q \in {"web", "apps"} : ~IsNone(analysis_metrics, "sessions", q)}}
        per_user == {<<"sessions_per_user", p>> : p \in {"web", "apps"}}
        user_conversion == {<<"user_conversion", p>> : p \in {"web", "apps"}}
        shown == {p \in combined \cup sessions \cup conversion \cup per_user
                        \cup user_conversion : ~IsNone(analysis_metrics, p[1], p[2])}
    IN  ReportReturned(Rendered(analysis_metrics, shown), "summary")

\* the positions generate_comparative_summary compares with 0 without a
\* test against None: all but the combined user conversion
ComparedUnguarded ==
    {p \in ReportMetrics \X Range(Platforms) : p # <<"user_conversion", "combined">>}

generate_comparative_summary(analysis_metrics) ==
    LET headline == {<<"sessions", "combined">>, <<"session_conversion", "combined">>,
                     <<"sessions_per_user", "combined">>}
        shown == {p \in ReportMetrics \X Range(Platforms) :
                      ~IsNone(analysis_metrics, p[1], p[2])}
    IN  IF \E p \in headline : IsNone(analysis_metrics, p[1], p[2])
        THEN ReportRaised("TypeError")
        ELSE IF analysis_metrics.sessions.combined.current = 0
        THEN ReportRaised("ZeroDivisionError")
        ELSE IF \E p \in ComparedUnguarded : IsNone(analysis_metrics, p[1], p[2])
        THEN ReportRaised("TypeError")
        ELSE ReportReturned(Rendered(analysis_metrics, shown), "summary")

\* (amp > 0 and ga4 > 0) or (amp < 0 and ga4 < 0), evaluated left to right
_check_trend_alignment(amplitude_sessions, ga4_sessions) ==
    LET amp_combined_trend == amplitude_sessions.combined.yoy_change
        ga4_combined_trend == ga4_sessions.combined.yoy_change
    IN  IF amp_combined_trend = Null
        THEN ReportRaised("TypeError")
        ELSE IF amp_combined_trend.tenths # 0 /\ ga4_combined_trend = Null
        THEN ReportRaised("TypeError")
        ELSE IF \/ amp_combined_trend.tenths > 0 /\ ga4_combined_trend.tenths > 0
                \/ amp_combined_trend.tenths < 0 /\ ga4_combined_trend.tenths < 0
        THEN ReportReturned({}, "similar_yoy_patterns")
        ELSE ReportReturned({}, "divergent_yoy_patterns")

\* the message send_to_slack builds and posts. The overview fields go
\* through format_metric_for_slack, which tests yoy_change against None;
\* the platform fields are built when the three session counts are non-zero
send_to_slack(slack_webhook_url, analysis_metrics, posted) ==
    LET overview == {p \in {<<m, "combined">> : m \in ReportMetrics} :
                        ~IsNone(analysis_metrics, p[1], p[2])}
        emojis == {<<"sessions", "web">>, <<"session_conversion", "web">>,
                   <<"sessions", "apps">>, <<"session_conversion", "apps">>}
        per_user == IF IsNone(analysis_metrics, "sessions_per_user", "web") THEN {}
                    ELSE {p \in {<<"sessions_per_user", "web">>,
                                 <<"sessions_per_user", "apps">>} :
                             ~IsNone(analysis_metrics, p[1], p[2])}
        user_conversion == IF IsNone(analysis_metrics, "user_conversion", "web") THEN {}
                           ELSE {<<"user_conversion", "web">>,
                                 <<"user_conversion", "apps">>}
        result == IF posted THEN "sent" ELSE "not_sent"
    IN  IF ~slack_webhook_url
        THEN ReportReturned({}, "not_sent")
        ELSE IF \E p \in Range(Platforms) : analysis_metrics.sessions[p].current = 0
        THEN ReportReturned(Rendered(analysis_metrics, overview), result)
        ELSE IF \E p \in emojis : IsNone(analysis_metrics, p[1], p[2])
        THEN ReportRaised("TypeError")
        ELSE IF \E p \in user_conversion : IsNone(analysis_metrics, p[1], p[2])
        THEN ReportRaised("TypeError")
        ELSE ReportReturned(Rendered(analysis_metrics, overview \cup emojis \cup per_user
                                                  \cup user_conversion), result)

\* Metrics handed to the generators: every platform of every metric is up
\* on the year before, except at up to two places, where it is down, has no
\* baseline, or has neither a baseline nor a current value (in thousandths)
ReportPairs == {<<40000, 30000>>, <<30000, 40000>>, <<30000, 0>>, <<0, 0>>}

ComparisonOf(metric, pair) ==
    PlatformComparison(pair[1], pair[2], metric \in ConversionMetrics)

BaseMetrics ==
    [m \in ReportMetrics |->
        [p \in Range(Platforms) |-> ComparisonOf(m, <<40000, 30000>>)]]

ReportInputs ==
    {[[BaseMetrics EXCEPT ![a[1]][a[2]] = ComparisonOf(a[1], x)]
          EXCEPT ![b[1]][b[2]] = ComparisonOf(b[1], y)] :
        a \in ReportMetrics \X Range(Platforms),
        b \in ReportMetrics \X Range(Platforms),
        x \in ReportPairs, y \in ReportPairs}

\* the sessions GA4 reports for the same week
Ga4SessionInputs ==
    {[combined |-> ComparisonOf("sessions", x)] : x \in ReportPairs}

----------------------------------------------------------------------------
(* The AppsFlyer browser session: AppsFlyerWeeklyAnalyzer.start_session and
   close_session, and the steps of AcquisitionReconciler.reconcile_week
   around them. A browser is the number of its launch. *)

\* AppsFlyerWeeklyAnalyzer.browser is None
NoBrowser == 0

\* the browsers one process launches
MaxLaunches == 3

ReconcileYears == {2024, 2025}
ReconcileWeeks == {28, 29}

\* a call on the session is over: it returned or it raised
SessionIdle == session_pc \in {"idle", "returned", "raised"}

\* close_session: closes the browser the analyzer holds, if it holds one
close_session ==
    IF browser # NoBrowser
    THEN /\ open_browsers' = open_browsers \ {browser}
         /\ browser' = NoBrowser
         /\ logged_in' = FALSE
    ELSE UNCHANGED <<browser, logged_in, open_browsers>>

\* where the caller of start_session goes on when it returns
AfterStartSession ==
    IF session_call.function = "reconcile_week" THEN "try" ELSE "returned"

SessionStep(position, raised_in) ==
    /\ session_pc' = position
    /\ session_call' = [session_call EXCEPT !.raised_in = raised_in]

----------------------------------------------------------------------------
(* Repeated calls on one handler and one reconciler *)

MaxCalls == 3

\* the channels of the reconciliations below
SeededChannels == {"Direct", "Paid Search", "Unmapped"}
HashSeeds == PermsOf(SeededChannels)

\* iteration over a set of strings in the order of the running process
IterationOrder(seed, S) == SelectSeq(seed, LAMBDA c : c \in S)

RepeatedPayloads ==
    {LayoutPayload("dated", <<"3", "0">>, <<"1", "2", "3", "4">>, FALSE, <<"3", "0">>),
     LayoutPayload("headerless", <<"3", "0">>, <<"n/a">>, TRUE, <<"n/a">>)}

RepeatedExtracts ==
    [csv_data : RepeatedPayloads, year : {2025}, target_week : {SecondChartWeek}]

RepeatedComparisons ==
    [current_data : RepeatedPayloads,
     previous_data : {LayoutPayload("dated", <<"3", "0">>, <<"3", "0">>, FALSE, <<"3", "0">>)},
     is_conversion : {FALSE}, target_week : {SecondChartWeek}]

RepeatedReconciliations ==
    [af : {AppsflyerSummary(("organic" :> 1000) @@ ("googleadwords_int" :> 500),
                            <<"organic", "googleadwords_int">>),
           AppsflyerSummary(("tiktokglobal_int" :> 40) @@ ("organic" :> 200),
                            <<"tiktokglobal_int", "organic">>)},
     g : {Ga4Data(("Direct" :> 700) @@ ("Paid Search" :> 900)),
          Ga4Data("Direct" :> 700)}]

\* the record of one call
Called(operation, args, result) ==
    [op |-> operation, args |-> args, result |-> result]

NoDict == <<>>

\* the handler and the reconciler after construction
Constructed ==
    /\ channel_mapping = ChannelMappingTable
    /\ reverse_mapping = BuildReverseMapping(ChannelMappingTable, ChannelOrder)
    /\ pc = "ready"
    /\ op = "init"
    /\ outcome = "none"
    /\ export = NoDict
    /\ appsflyer = NoDict
    /\ ga4 = NoDict
    /\ af_by_channel = NoDict
    /\ reconciliation = NoDict
    /\ formatted = NoDict
    /\ comparison = NoDict
    /\ call = NoDict
    /\ yoy = NoDict
    /\ extract_call = NoDict
    /\ metrics = NoDict
    /\ week_call = NoDict
    /\ week_dates = NoDict
    /\ seen = <<>>
    /\ report_call = NoDict
    /\ report = NoDict
    /\ browser = NoBrowser
    /\ logged_in = FALSE
    /\ open_browsers = {}
    /\ launched = 0
    /\ session_pc = "idle"
    /\ session_call = NoDict

Init ==
    /\ Constructed
    /\ hash_seed = ChannelOrder

\* a process in which the operations are called repeatedly: the order in
\* which its sets of strings iterate is fixed when it starts
InitPure ==
    /\ Constructed
    /\ hash_seed \in HashSeeds

----------------------------------------------------------------------------
(* Operations *)

\* reconcile_week raises: export_week_data returned None
ReconcileWeekNoExport ==
    /\ op' = "reconcile_week"
    /\ outcome' = "raised"
    /\ export' = NoDict
    /\ appsflyer' = NoDict
    /\ ga4' = NoDict
    /\ af_by_channel' = NoDict
    /\ reconciliation' = NoDict

\* reconcile_week raises: the GA4 request failed after the export was analysed
ReconcileWeekNoGa4 ==
    \E csv \in CsvFiles :
    \E media_order \in MediaOrders(csv) :
        /\ op' = "reconcile_week"
        /\ outcome' = "raised"
        /\ export' = csv
        /\ appsflyer' = analyze_week_data(csv, media_order)
        /\ ga4' = NoDict
        /\ af_by_channel' = NoDict
        /\ reconciliation' = NoDict

\* reconcile_week returns the report of _perform_reconciliation
ReconcileWeekReturns ==
    \E csv \in CsvFiles, response \in Ga4Responses :
    \E media_order \in MediaOrders(csv) :
        LET af == analyze_week_data(csv, media_order)
            g == get_new_users_by_channel(response)
        IN  \E channel_order \in PermsOf(AllChannels(reverse_mapping, af, g)) :
                /\ op' = "reconcile_week"
                /\ outcome' = "report"
                /\ export' = csv
                /\ appsflyer' = af
                /\ ga4' = g
                /\ af_by_channel' =
                       NormalizeSources(reverse_mapping,
                                        Get(af, "media_sources", <<>>))
                /\ reconciliation' =
                       _perform_reconciliation(reverse_mapping, af, g, channel_order)

reconcile_week ==
    /\ pc = "ready"
    /\ pc' = "called"
    /\ \/ ReconcileWeekNoExport
       \/ ReconcileWeekNoGa4
       \/ ReconcileWeekReturns
    /\ formatted' = NoDict
    /\ comparison' = NoDict
    /\ UNCHANGED <<lastVars, channel_mapping, reverse_mapping, yoyVars, laterVars>>

FormatReport ==
    /\ pc = "called"
    /\ outcome = "report"
    /\ op = "reconcile_week"
    /\ pc' = "formatted"
    /\ op' = "format_reconciliation_report"
    /\ formatted' = format_reconciliation_report(reconciliation)
    /\ UNCHANGED <<lastVars, channel_mapping, reverse_mapping, outcome, export, appsflyer, ga4,
                   af_by_channel, reconciliation, comparison, yoyVars, laterVars>>

CompareWithAppsflyer ==
    /\ pc = "ready"
    /\ \E csv \in CsvFiles, response \in Ga4Responses :
       \E media_order \in MediaOrders(csv) :
        /\ pc' = "called"
        /\ op' = "compare_with_appsflyer"
        /\ outcome' = "report"
        /\ export' = csv
        /\ appsflyer' = analyze_week_data(csv, media_order)
        /\ ga4' = get_new_users_by_channel(response)
        /\ comparison' = compare_with_appsflyer(ga4', appsflyer')
        /\ af_by_channel' = NoDict
        /\ reconciliation' = NoDict
        /\ formatted' = NoDict
        /\ UNCHANGED <<lastVars, channel_mapping, reverse_mapping, yoyVars, laterVars>>

CalculatePlatformYoy ==
    /\ pc = "ready"
    /\ \E current_data \in Payloads(2025), previous_data \in Payloads(2024),
          is_conversion \in BOOLEAN, target_week \in TargetWeeks :
        LET r == calculate_platform_yoy_comparison(current_data, previous_data,
                                                   is_conversion, target_week)
        IN  /\ pc' = "called"
            /\ op' = "calculate_platform_yoy_comparison"
            /\ outcome' = IF r.status = "raised" THEN "raised" ELSE "report"
            /\ call' = [current_data |-> current_data,
                        previous_data |-> previous_data,
                        is_conversion |-> is_conversion,
                        target_week |-> target_week]
            /\ yoy' = r
    /\ UNCHANGED <<lastVars, channel_mapping, reverse_mapping, reconVars, laterVars>>


\* one call of extract_platform_metrics with an explicit target week
ExtractPlatformMetrics ==
    /\ pc = "ready"
    /\ \E csv_data \in ExtractPayloads, year \in ExtractYears,
          target_week \in TargetWeeks :
        LET r == extract_platform_metrics(csv_data, year, target_week)
        IN  /\ pc' = "called"
            /\ op' = "extract_platform_metrics"
            /\ outcome' = IF r.raised THEN "raised" ELSE "report"
            /\ extract_call' = [csv_data |-> csv_data, year |-> year,
                                target_week |-> target_week]
            /\ metrics' = r
    /\ UNCHANGED <<lastVars, channel_mapping, reverse_mapping, reconVars, yoyVars,
                   dateVars, pureVars>>


WeekDateCall(function) ==
    /\ pc = "ready"
    /\ \E year \in DateYears, week \in WeekNumbers :
        LET r == WeekDates(function, year, week)
        IN  /\ pc' = "called"
            /\ op' = function
            /\ outcome' = IF r.raised THEN "raised" ELSE "report"
            /\ week_call' = [function |-> function, year |-> year, week |-> week]
            /\ week_dates' = r
    /\ UNCHANGED <<lastVars, channel_mapping, reverse_mapping, reconVars, yoyVars,
                   extractVars, pureVars>>

GetWeekDateRange == WeekDateCall("get_week_date_range")
GetIsoWeekDates == WeekDateCall("get_iso_week_dates")
GetWeekDates == WeekDateCall("get_week_dates")
TargetWeekStart == WeekDateCall("target_week_start")


\* _perform_reconciliation called with the two dicts, as the weekly analyzer
\* calls it
PerformReconciliation ==
    /\ pc = "ready"
    /\ \E input \in ReconciliationInputs :
       \E channel_order \in PermsOf(AllChannels(reverse_mapping, input.af, input.g)) :
        /\ pc' = "called"
        /\ op' = "_perform_reconciliation"
        /\ outcome' = "report"
        /\ appsflyer' = input.af
        /\ ga4' = input.g
        /\ af_by_channel' = NormalizeSources(reverse_mapping, input.af.media_sources)
        /\ reconciliation' =
               _perform_reconciliation(reverse_mapping, input.af, input.g, channel_order)
    /\ UNCHANGED <<lastVars, channel_mapping, reverse_mapping, export, formatted, comparison,
                   yoyVars, laterVars>>


\* extract_platform_metrics, called again on the same handler
RepeatExtract ==
    /\ Len(seen) < MaxCalls
    /\ \E args \in RepeatedExtracts :
        LET r == extract_platform_metrics(args.csv_data, args.year, args.target_week)
        IN  /\ op' = "extract_platform_metrics"
            /\ outcome' = IF r.raised THEN "raised" ELSE "report"
            /\ extract_call' = args
            /\ metrics' = r
            /\ seen' = Append(seen, Called("extract_platform_metrics", args, r))
    /\ UNCHANGED <<lastVars, channel_mapping, reverse_mapping, pc, reconVars, yoyVars,
                   dateVars, hash_seed>>

\* calculate_platform_yoy_comparison, called again on the same handler
RepeatCompare ==
    /\ Len(seen) < MaxCalls
    /\ \E args \in RepeatedComparisons :
        LET r == calculate_platform_yoy_comparison(args.current_data,
                     args.previous_data, args.is_conversion, args.target_week)
        IN  /\ op' = "calculate_platform_yoy_comparison"
            /\ outcome' = IF r.status = "raised" THEN "raised" ELSE "report"
            /\ call' = args
            /\ yoy' = r
            /\ seen' = Append(seen, Called("calculate_platform_yoy_comparison", args, r))
    /\ UNCHANGED <<lastVars, channel_mapping, reverse_mapping, pc, reconVars, extractVars,
                   dateVars, hash_seed>>

\* _perform_reconciliation, called again on the same reconciler; the set
\* all_channels iterates in the order of the process
RepeatReconcile ==
    /\ Len(seen) < MaxCalls
    /\ \E args \in RepeatedReconciliations :
        LET channel_order ==
                IterationOrder(hash_seed, AllChannels(reverse_mapping, args.af, args.g))
            r == _perform_reconciliation(reverse_mapping, args.af, args.g, channel_order)
        IN  /\ op' = "_perform_reconciliation"
            /\ outcome' = "report"
            /\ appsflyer' = args.af
            /\ ga4' = args.g
            /\ af_by_channel' = NormalizeSources(reverse_mapping, args.af.media_sources)
            /\ reconciliation' = r
            /\ seen' = Append(seen, Called("_perform_reconciliation", args, r))
    /\ UNCHANGED <<lastVars, channel_mapping, reverse_mapping, pc, export, formatted,
                   comparison, yoyVars, extractVars, dateVars, hash_seed>>

\* one of the computations of the previous week, at the time now
WeekInfoCall(function) ==
    /\ pc = "ready"
    /\ \E now \in Nows :
        /\ pc' = "called"
        /\ op' = function
        /\ outcome' = "report"
        /\ week_call' = [function |-> function, now |-> now]
        /\ week_dates' = WeekInfoOf(function, now)
    /\ UNCHANGED <<lastVars, channel_mapping, reverse_mapping, reconVars, yoyVars,
                   extractVars, pureVars>>

GetCurrentWeekInfo == WeekInfoCall("get_current_week_info")
GetWeekInfo == WeekInfoCall("enhanced_analyzer.get_week_info")
GetWeekInfoWeekly == WeekInfoCall("enhanced_weekly_analyzer.get_week_info")
DefaultTargetWeek == WeekInfoCall("default_target_week")


\* a weekly report requested for the target week of the target year
WeeklyCall(function) ==
    /\ pc = "ready"
    /\ \E results \in ChartResults, target_week \in TargetWeeks,
          target_year \in TargetYears :
        \E r \in {IF function = "get_weekly_yoy_data"
                  THEN get_weekly_yoy_data(results, target_week, target_year)
                  ELSE analyze_weekly_data(results, target_week, target_year)} :
            /\ pc' = "called"
            /\ op' = function
            /\ outcome' = IF r.raised THEN "raised" ELSE "report"
            /\ call' = [results |-> results, target_week |-> target_week,
                        target_year |-> target_year]
            /\ yoy' = r
    /\ UNCHANGED <<lastVars, channel_mapping, reverse_mapping, reconVars, laterVars>>

GetWeeklyYoyData == WeeklyCall("get_weekly_yoy_data")
AnalyzeWeeklyData == WeeklyCall("analyze_weekly_data")

\* the reconciliation run: one report, then its rendering
Next ==
    \/ reconcile_week
    \/ FormatReport
    \/ CompareWithAppsflyer

Spec == Init /\ [][Next]_vars

\* the year-over-year comparison of two chart payloads
NextYoy == CalculatePlatformYoy

SpecYoy == Init /\ [][NextYoy]_vars

\* the extraction of one chart payload
NextExtract == ExtractPlatformMetrics

SpecExtract == Init /\ [][NextExtract]_vars

\* the week-date computations
NextDates ==
    \/ GetWeekDateRange
    \/ GetIsoWeekDates
    \/ GetWeekDates
    \/ TargetWeekStart

SpecDates == Init /\ [][NextDates]_vars

\* the reconciliation of two given dicts
NextInsights == PerformReconciliation

SpecInsights == Init /\ [][NextInsights]_vars

\* any sequence of calls on the same objects
NextPure ==
    \/ RepeatExtract
    \/ RepeatCompare
    \/ RepeatReconcile

SpecPure == InitPure /\ [][NextPure]_vars

\* the choice of the week to report on
NextWeekInfo ==
    \/ GetCurrentWeekInfo
    \/ GetWeekInfo
    \/ GetWeekInfoWeekly
    \/ DefaultTargetWeek

SpecWeekInfo == Init /\ [][NextWeekInfo]_vars

\* a report generator runs on the metrics of a week
ReportCall(function, args, result) ==
    /\ pc' = "called"
    /\ op' = function
    /\ outcome' = IF result.raised THEN "raised" ELSE "report"
    /\ report_call' = [function |-> function, args |-> args]
    /\ report' = result
    /\ UNCHANGED <<sessionVars, channel_mapping, reverse_mapping, reconVars,
                   yoyVars, laterVars>>

GenerateExecutiveSummary ==
    /\ pc = "ready"
    /\ \E m \in ReportInputs :
        ReportCall("generate_executive_summary", [metrics |-> m],
                   generate_executive_summary(m))

GenerateComparativeSummary ==
    /\ pc = "ready"
    /\ \E m \in ReportInputs :
        ReportCall("generate_comparative_summary", [metrics |-> m],
                   generate_comparative_summary(m))

CheckTrendAlignment ==
    /\ pc = "ready"
    /\ \E m \in ReportInputs, g \in Ga4SessionInputs :
        ReportCall("_check_trend_alignment", [metrics |-> m, ga4_sessions |-> g],
                   _check_trend_alignment(m.sessions, g))

SendToSlack ==
    /\ pc = "ready"
    /\ \E m \in ReportInputs, slack_webhook_url \in BOOLEAN, posted \in BOOLEAN :
        ReportCall("send_to_slack",
                   [metrics |-> m, slack_webhook_url |-> slack_webhook_url,
                    posted |-> posted],
                   send_to_slack(slack_webhook_url, m, posted))

\* the steps on the browser session leave the rest of the program alone
SessionOnly ==
    UNCHANGED <<reportVars, channel_mapping, reverse_mapping, pc, op, outcome,
                reconVars, yoyVars, laterVars>>

\* reconcile_week(year, week) is called: it starts with start_session
ReconcileWeekEnter ==
    /\ SessionIdle
    /\ \E year \in ReconcileYears, week \in ReconcileWeeks :
        session_call' = [function |-> "reconcile_week", year |-> year,
                         week |-> week, raised_in |-> "none",
                         launch |-> NoBrowser]
    /\ session_pc' = "start_session"
    /\ UNCHANGED <<browser, logged_in, open_browsers, launched>>
    /\ SessionOnly

\* start_session is called on the analyzer by another of its users
StartSessionEnter ==
    /\ SessionIdle
    /\ session_call' = [function |-> "start_session", year |-> 0, week |-> 0,
                        raised_in |-> "none", launch |-> NoBrowser]
    /\ session_pc' = "start_session"
    /\ UNCHANGED <<browser, logged_in, open_browsers, launched>>
    /\ SessionOnly

\* close_session is called on the analyzer by another of its users
CloseSessionCall ==
    /\ SessionIdle
    /\ session_call' = [function |-> "close_session", year |-> 0, week |-> 0,
                        raised_in |-> "none", launch |-> NoBrowser]
    /\ session_pc' = "returned"
    /\ close_session
    /\ UNCHANGED launched
    /\ SessionOnly

\* start_session: if self.logged_in: return
StartSessionLoggedIn ==
    /\ session_pc = "start_session"
    /\ logged_in
    /\ SessionStep(AfterStartSession, "none")
    /\ UNCHANGED <<browser, logged_in, open_browsers, launched>>
    /\ SessionOnly

\* start_session: self.browser = await playwright.chromium.launch(...)
StartSessionLaunch ==
    /\ session_pc = "start_session"
    /\ ~logged_in
    /\ launched < MaxLaunches
    /\ launched' = launched + 1
    /\ browser' = launched + 1
    /\ open_browsers' = open_browsers \cup {launched + 1}
    /\ session_pc' = "login"
    /\ session_call' = [session_call EXCEPT !.launch = launched + 1]
    /\ UNCHANGED logged_in
    /\ SessionOnly

\* start_session: the login went through, self.logged_in = True
LoginSucceeds ==
    /\ session_pc = "login"
    /\ logged_in' = TRUE
    /\ SessionStep(AfterStartSession, "none")
    /\ UNCHANGED <<browser, open_browsers, launched>>
    /\ SessionOnly

\* start_session: a step of the login raises; the caller does not catch it
LoginFails ==
    /\ session_pc = "login"
    /\ SessionStep("raised", "start_session")
    /\ UNCHANGED <<browser, logged_in, open_browsers, launched>>
    /\ SessionOnly

\* reconcile_week, in the try: export_week_data returned None
ExportFails ==
    /\ session_pc = "try"
    /\ SessionStep("finally", "try")
    /\ UNCHANGED <<browser, logged_in, open_browsers, launched>>
    /\ SessionOnly

\* reconcile_week, in the try: the export was analysed, to data or to the
\* error dict analyze_week_data returns
ExportAnalysed ==
    /\ session_pc = "try"
    /\ SessionStep("finally", "none")
    /\ UNCHANGED <<browser, logged_in, open_browsers, launched>>
    /\ SessionOnly

\* reconcile_week, finally: close_session, then the exception goes on
CloseSessionFinally ==
    /\ session_pc = "finally"
    /\ close_session
    /\ SessionStep(IF session_call.raised_in = "try" THEN "raised" ELSE "ga4",
                   session_call.raised_in)
    /\ UNCHANGED launched
    /\ SessionOnly

\* reconcile_week, after the try: the GA4 request raises
Ga4Fails ==
    /\ session_pc = "ga4"
    /\ SessionStep("raised", "ga4")
    /\ UNCHANGED <<browser, logged_in, open_browsers, launched>>
    /\ SessionOnly

\* reconcile_week returns the reconciliation
ReconcileWeekReturn ==
    /\ session_pc = "ga4"
    /\ SessionStep("returned", "none")
    /\ UNCHANGED <<browser, logged_in, open_browsers, launched>>
    /\ SessionOnly

\* the weekly year-over-year report
NextWeekly ==
    \/ GetWeeklyYoyData
    \/ AnalyzeWeeklyData

SpecWeekly == Init /\ [][NextWeekly]_vars

\* the report generators on the metrics of a week
NextReports ==
    \/ GenerateExecutiveSummary
    \/ GenerateComparativeSummary
    \/ CheckTrendAlignment
    \/ SendToSlack

SpecReports == Init /\ [][NextReports]_vars

\* the browser session over calls of reconcile_week, start_session and
\* close_session on one reconciler
NextSession ==
    \/ ReconcileWeekEnter
    \/ StartSessionEnter
    \/ CloseSessionCall
    \/ StartSessionLoggedIn
    \/ StartSessionLaunch
    \/ LoginSucceeds
    \/ LoginFails
    \/ ExportFails
    \/ ExportAnalysed
    \/ CloseSessionFinally
    \/ Ga4Fails
    \/ ReconcileWeekReturn

SpecSession == Init /\ [][NextSession]_vars

----------------------------------------------------------------------------
(* Properties of the reconciliation report *)

Reported == op \in {"reconcile_week", "format_reconciliation_report"}
                /\ outcome = "report"

MediaSources == Get(appsflyer, "media_sources", <<>>)
Ga4ByChannel == Get(ga4, "by_channel", <<>>)
ByChannel == reconciliation.by_channel

SumA == SumOver([c \in DOMAIN ByChannel |-> ByChannel[c].appsflyer], DOMAIN ByChannel)
SumB == SumOver([c \in DOMAIN ByChannel |-> ByChannel[c].ga4], DOMAIN ByChannel)
SumDiff == SumOver([c \in DOMAIN ByChannel |-> ByChannel[c].difference], DOMAIN ByChannel)

\* C3: normalization conserves volume: the A-side values of all channel
\* buckets (Unmapped included) add up to the sum of the raw per-source totals.
C3_NormalizationConservesVolume ==
    Reported =>
        /\ SumOver(af_by_channel, DOMAIN af_by_channel)
               = SumOver(MediaSources, DOMAIN MediaSources)
        /\ SumA = SumOver(MediaSources, DOMAIN MediaSources)

\* a mapped and an unmapped source were normalized, both with volume
C3_Witness ==
    /\ Reported
    /\ "Unmapped" \in DOMAIN af_by_channel
    /\ af_by_channel["Unmapped"] > 0
    /\ \E c \in DOMAIN af_by_channel : c # "Unmapped" /\ af_by_channel[c] > 0

\* the channels of the forward table that list a source
ListedUnder(s) == {c \in DOMAIN channel_mapping : s \in Range(channel_mapping[c])}

\* the sources whose total belongs to bucket c according to the forward table
SourcesOfBucket(c) ==
    {s \in DOMAIN MediaSources :
        IF ListedUnder(s) = {} THEN c = "Unmapped" ELSE c \in ListedUnder(s)}

\* C4: every raw source identifier is counted in exactly one bucket: the one
\* canonical channel that lists it (the reverse lookup is the exact inverse
\* of the forward table, no identifier being listed twice), else Unmapped.
C4_ExactlyOneBucket ==
    /\ \A s \in DOMAIN reverse_mapping : ListedUnder(s) = {reverse_mapping[s]}
    /\ \A c \in DOMAIN channel_mapping :
           \A s \in Range(channel_mapping[c]) : s \in DOMAIN reverse_mapping
    /\ Reported =>
        /\ \A s \in DOMAIN MediaSources :
               Cardinality({c \in DOMAIN af_by_channel : s \in SourcesOfBucket(c)}) = 1
        /\ \A c \in DOMAIN af_by_channel :
               /\ SourcesOfBucket(c) # {}
               /\ af_by_channel[c] = SumOver(MediaSources, SourcesOfBucket(c))

\* two sources of one channel and an unlisted source cannot both fit in two
\* rows: the witness is two listed sources accumulated in one channel
C4_Witness ==
    /\ Reported
    /\ \E c \in DOMAIN af_by_channel :
           /\ Cardinality(SourcesOfBucket(c)) = 2
           /\ \A s \in SourcesOfBucket(c) : MediaSources[s] > 0

\* C5: the keys of by_channel are the union of the keys of both sides, and a
\* channel missing from one side has that side's value reported as 0.
C5_UnionChannelCoverage ==
    Reported =>
        /\ DOMAIN ByChannel = DOMAIN af_by_channel \cup DOMAIN Ga4ByChannel
        /\ \A c \in DOMAIN ByChannel :
               /\ ByChannel[c].appsflyer =
                      (IF c \in DOMAIN af_by_channel THEN af_by_channel[c] ELSE 0)
               /\ ByChannel[c].ga4 =
                      (IF c \in DOMAIN Ga4ByChannel THEN Ga4ByChannel[c] ELSE 0)

\* one channel only on the A side and one only on the B side
C5_Witness ==
    /\ Reported
    /\ \E c \in DOMAIN ByChannel :
           c \notin DOMAIN Ga4ByChannel /\ ByChannel[c].appsflyer > 0
    /\ \E c \in DOMAIN ByChannel :
           c \notin DOMAIN af_by_channel /\ ByChannel[c].ga4 > 0

\* C6: the sign convention is B minus A in the summary and in every channel
\* entry of a reconciliation report (and of compare_with_appsflyer).
C6_SignConvention ==
    /\ Reported =>
        /\ reconciliation.summary.difference =
               reconciliation.summary.ga4_new_users
                   - reconciliation.summary.appsflyer_installs
        /\ \A c \in DOMAIN ByChannel :
               ByChannel[c].difference = ByChannel[c].ga4 - ByChannel[c].appsflyer
    /\ op = "compare_with_appsflyer" =>
        /\ comparison.summary.difference =
               comparison.summary.ga4_new_users
                   - comparison.summary.appsflyer_installs
        /\ \A c \in DOMAIN comparison.channel_comparison :
               comparison.channel_comparison[c].difference =
                   comparison.channel_comparison[c].ga4
                       - comparison.channel_comparison[c].appsflyer

\* a report whose summary difference is negative while a channel's is positive
C6_Witness ==
    /\ Reported
    /\ reconciliation.summary.difference < 0
    /\ \E c \in DOMAIN ByChannel : ByChannel[c].difference > 0

PercentIsRelativeToA(e, a) ==
    IF a # 0
    THEN e.difference_percent.num * a = e.difference * 100 * e.difference_percent.den
    ELSE e.difference_percent.num = 0

\* C7: difference_percent is difference / A * 100 when the A-side value is
\* non-zero and exactly 0 when the A-side value is 0, in the summary and in
\* every by_channel entry.
C7_DifferencePercent ==
    Reported =>
        /\ PercentIsRelativeToA(reconciliation.summary,
                                reconciliation.summary.appsflyer_installs)
        /\ \A c \in DOMAIN ByChannel :
               PercentIsRelativeToA(ByChannel[c], ByChannel[c].appsflyer)

\* a non-zero summary percentage next to a channel whose A side is 0
C7_Witness ==
    /\ Reported
    /\ reconciliation.summary.appsflyer_installs > 0
    /\ reconciliation.summary.difference # 0
    /\ \E c \in DOMAIN ByChannel :
           ByChannel[c].appsflyer = 0 /\ ByChannel[c].ga4 > 0

C9_ChannelHasNonZeroSide ==
    Reported =>
        \A c \in DOMAIN ByChannel :
            ByChannel[c].appsflyer # 0 \/ ByChannel[c].ga4 # 0

\* C9 amended: every channel of by_channel is a key of at least one side
\* (both values can be 0 when the side reports zero volume); the channel
\* table of the formatted report lists exactly the channels with a positive
\* value on at least one side.
C9_TableRowsHaveNonZeroSide ==
    /\ Reported =>
           \A c \in DOMAIN ByChannel :
               c \in DOMAIN af_by_channel \/ c \in DOMAIN Ga4ByChannel
    /\ op = "format_reconciliation_report" =>
           Range(formatted.table_rows) =
               {c \in DOMAIN ByChannel :
                   ByChannel[c].appsflyer > 0 \/ ByChannel[c].ga4 > 0}

\* a formatted report that left an all-zero channel out of its table
C9_Witness ==
    /\ op = "format_reconciliation_report"
    /\ formatted.table_rows # <<>>
    /\ \E c \in DOMAIN ByChannel :
           /\ ByChannel[c].appsflyer = 0
           /\ ByChannel[c].ga4 = 0
           /\ c \notin Range(formatted.table_rows)

ASideEmpty == Get(appsflyer, "total_installs", 0) = 0 /\ DOMAIN MediaSources = {}
BSideEmpty == Get(ga4, "total_new_users", 0) = 0 /\ DOMAIN Ga4ByChannel = {}

\* C10 as claimed: when one side of a reconciliation is missing or empty and
\* the other has a positive total, the report has a non-zero, B-minus-A
\* signed summary difference and its overall insight is an over- or
\* under-reporting statement, not the well-aligned one.
C10_AbsentSideSurfacesDiscrepancy ==
    Reported =>
        /\ (ASideEmpty /\ Get(ga4, "total_new_users", 0) > 0) =>
               /\ reconciliation.summary.difference > 0
               /\ reconciliation.insights[1].kind = "overall"
        /\ (BSideEmpty /\ Get(appsflyer, "total_installs", 0) > 0) =>
               /\ reconciliation.summary.difference < 0
               /\ reconciliation.insights[1].kind = "overall"

----------------------------------------------------------------------------
(* Properties of the year-over-year comparator (under SpecYoy) *)

YoyCalled == op = "calculate_platform_yoy_comparison"
YoyReturned == YoyCalled /\ yoy.status = "result"

\* C1: the comparator returns a null delta for a platform if and only if its
\* previous value is 0: null and no exception for a zero baseline, a number
\* for every other baseline (the number 0 when current = previous).
C1_NullIffZeroBaseline ==
    /\ YoyReturned =>
           \A platform \in Range(Platforms) :
               LET e == yoy.platforms[platform]
               IN  /\ e.yoy_change.kind = "null" <=> e.previous = 0
                   /\ e.previous # 0 => e.yoy_change.kind = "number"
                   /\ (e.previous # 0 /\ e.current = e.previous) =>
                          e.yoy_change = Number(0)
    \* the only exception of a call is the ValueError of a week that the
    \* year of a chart does not have
    /\ (YoyCalled /\ outcome = "raised") =>
           ~(IsoWeekExists(2025, call.target_week)
                 /\ IsoWeekExists(2024, call.target_week))

\* one platform without baseline next to one whose value did not change
C1_Witness ==
    /\ YoyReturned
    /\ \E platform \in Range(Platforms) :
           /\ yoy.platforms[platform].previous = 0
           /\ yoy.platforms[platform].current # 0
           /\ yoy.platforms[platform].yoy_change = Null
    /\ \E platform \in Range(Platforms) :
           /\ yoy.platforms[platform].previous # 0
           /\ yoy.platforms[platform].current = yoy.platforms[platform].previous
           /\ yoy.platforms[platform].yoy_change = Number(0)

\* v tenths is n/d tenths rounded to a whole number of tenths
IsNearestTenth(v, n, d) == 2 * Abs(v * d - n) <= Abs(d)

\* C2: for previous # 0 the formula is selected by the metric kind only:
\* ((current - previous) / previous) * 100 for a count and
\* (current - previous) * 100 for a rate, rounded to one decimal place;
\* compare(0.40, 0.30, rate) = 10.0 and compare(40, 30, count) = 33.3.
C2_FormulaByMetricKind ==
    YoyReturned =>
        \A platform \in Range(Platforms) :
            LET e == yoy.platforms[platform]
                delta == e.current - e.previous
            IN  e.previous # 0 =>
                    /\ e.yoy_change.kind = "number"
                    /\ call.is_conversion =>
                           IsNearestTenth(e.yoy_change.tenths, delta * 1000, 1000)
                    /\ ~call.is_conversion =>
                           IsNearestTenth(e.yoy_change.tenths, delta * 1000, e.previous)
                    /\ (call.is_conversion /\ e.current = 400 /\ e.previous = 300) =>
                           e.yoy_change.tenths = 100
                    /\ (~call.is_conversion /\ e.current = 40000 /\ e.previous = 30000) =>
                           e.yoy_change.tenths = 333

\* the rate 0.40 against 0.30 compared as a rate: ten percentage points
C2_Witness ==
    /\ YoyReturned
    /\ call.is_conversion
    /\ yoy.platforms["apps"].current = 400
    /\ yoy.platforms["apps"].previous = 300
    /\ yoy.platforms["apps"].yoy_change = Number(100)

\* the count 40 against 30 compared as a count: 33.3 percent
C2_CountExample ==
    /\ YoyReturned
    /\ ~call.is_conversion
    /\ yoy.platforms["apps"].current = 40000
    /\ yoy.platforms["apps"].previous = 30000
    /\ yoy.platforms["apps"].yoy_change = Number(333)

----------------------------------------------------------------------------
(* Properties of extract_platform_metrics *)

Extracted == op = "extract_platform_metrics"
ExtractReturned == Extracted /\ outcome = "report"

ExtractLines == SplitLines(extract_call.csv_data)
LongEnough == extract_call.csv_data # <<>> /\ Len(ExtractLines) >= 4
HasHeader == HeaderIndex(ExtractLines) # 0
LinesOf(platform) ==
    {i \in DOMAIN ExtractLines : PlatformOfLine(ExtractLines[i]) = platform}
FirstLineOf(platform) ==
    CHOOSE i \in LinesOf(platform) : \A j \in LinesOf(platform) : i <= j

\* a cell float() accepts, and a non-empty cell it rejects
IsNumericCell(cell) == CleanCell(cell) # <<>> /\ IsFloatText(CleanCell(cell))
IsBadCell(cell) == CleanCell(cell) # <<>> /\ ~IsFloatText(CleanCell(cell))

\* the header columns (0-based) whose cell contains the start date of the
\* target week; none when the year does not have the week
DateColumns ==
    IF ~HasHeader \/ ~IsoWeekExists(extract_call.year, extract_call.target_week)
    THEN {}
    ELSE LET header_cols == Split(ExtractLines[HeaderIndex(ExtractLines)], ",")
             start == FormatDate(fromisocalendar(extract_call.year,
                                                 extract_call.target_week))
         IN  {i - 1 : i \in {j \in DOMAIN header_cols :
                                 Contains(header_cols[j], start)}}

\* C11: a payload without any line carrying a date marker yields 0 for every
\* platform, whatever numeric cells its platform rows contain.
C11_NoHeaderGivesZero ==
    (Extracted /\ ~HasHeader) => metrics = ZeroMetrics

\* C12: a payload of fewer than 4 lines, and an empty payload, yields 0 for
\* all three platforms and the call does not raise.
C12_ShortPayloadGivesZero ==
    (Extracted /\ ~LongEnough) => (outcome = "report" /\ metrics = ZeroMetrics)

\* a 3-line payload with a date header, a numeric platform row, and a target
\* week for which a longer payload makes the call raise
C12_Witness ==
    /\ Extracted
    /\ Len(ExtractLines) = 3
    /\ HasHeader
    /\ \E i \in LinesOf("apps") :
           \E k \in DOMAIN Split(ExtractLines[i], ",") :
               IsNumericCell(Split(ExtractLines[i], ",")[k])
    /\ ~IsoWeekExists(extract_call.year, extract_call.target_week)
    /\ metrics = ZeroMetrics

\* C13: when several lines carry the label of one platform, the value of the
\* platform is the value of the first of them in payload order.
C13_FirstMatchWins ==
    (ExtractReturned /\ LongEnough) =>
        \A platform \in Range(Platforms) :
            Cardinality(LinesOf(platform)) > 1 =>
                LET column == IF DateColumns = {} THEN NoColumn
                              ELSE CHOOSE c \in DateColumns :
                                       \A d \in DateColumns : c <= d
                IN  metrics[platform] =
                        PlatformValue(ExtractLines[FirstLineOf(platform)], column)

\* the line extract_platform_metrics keeps for a platform, 0 for none
UsedLine(platform) == PlatformLine(ExtractLines, platform)
UsedCells(platform) == Split(ExtractLines[UsedLine(platform)], ",")

\* the column the call located and reads: 0-based, at least 1 and within
\* the row of the platform; NoColumn when the call scans the row instead
ReadColumn(platform) ==
    IF DateColumns = {} THEN NoColumn
    ELSE LET c == CHOOSE c \in DateColumns : \A d \in DateColumns : c <= d
         IN  IF c >= 1 /\ c < Len(UsedCells(platform)) THEN c ELSE NoColumn

\* the cells the call reads for a platform (1-based positions in the row):
\* the located cell, or in the backward scan every cell it passes until the
\* first number
ReadCells(platform) ==
    LET cells == UsedCells(platform)
    IN  IF ReadColumn(platform) # NoColumn THEN {ReadColumn(platform) + 1}
        ELSE {k \in 2..Len(cells) :
                 \A j \in (k + 1)..Len(cells) : ~IsNumericCell(cells[j])}

HasBadCell(platform) ==
    /\ UsedLine(platform) # 0
    /\ \E k \in ReadCells(platform) : IsBadCell(UsedCells(platform)[k])

\* the payloads that differ from the payload of the call only in lines of
\* the platform
DiffersOnlyIn(platform) ==
    {other \in ExtractPayloads :
        /\ other # <<>>
        /\ Len(SplitLines(other)) = Len(ExtractLines)
        /\ \A i \in DOMAIN ExtractLines :
               SplitLines(other)[i] # ExtractLines[i] =>
                   /\ PlatformOfLine(ExtractLines[i]) = platform
                   /\ PlatformOfLine(SplitLines(other)[i]) = platform}

\* the other platforms get what they get from any payload that differs only
\* in lines of the platform
OthersUnaffected(platform) ==
    \A other \in DiffersOnlyIn(platform) :
        LET r == extract_platform_metrics(other, extract_call.year,
                                          extract_call.target_week)
        IN  \A sibling \in Range(Platforms) \ {platform} :
                r[sibling] = metrics[sibling]

\* C14 as stated: a cell the call reads for a platform and cannot parse
\* makes the value of that platform 0, and of that platform only.
C14_BadCellGivesZeroForPlatformOnly ==
    (ExtractReturned /\ LongEnough) =>
        \A platform \in Range(Platforms) :
            HasBadCell(platform) =>
                (metrics[platform] = 0 /\ OthersUnaffected(platform))

\* C14, amended: a cell of the located column that cannot be parsed gives 0
\* for its platform; the backward scan skips a cell that cannot be parsed,
\* and the platform gets the last cell of its row that is a number, 0 when
\* the row has none after its first cell; either way the call returns all
\* three platforms and the other platforms keep their values.
C14_BadCellIsolated ==
    (ExtractReturned /\ LongEnough) =>
        /\ DOMAIN metrics = {"raised", "apps", "web", "combined"}
        /\ \A platform \in Range(Platforms) :
               HasBadCell(platform) =>
                   /\ OthersUnaffected(platform)
                   /\ ReadColumn(platform) # NoColumn => metrics[platform] = 0
                   /\ ReadColumn(platform) = NoColumn =>
                          LET cells == UsedCells(platform)
                              numbers == {k \in 2..Len(cells) : IsNumericCell(cells[k])}
                          IN  IF numbers = {} THEN metrics[platform] = 0
                              ELSE \E k \in numbers :
                                      /\ \A j \in numbers : j <= k
                                      /\ metrics[platform] =
                                             FloatValue(CleanCell(cells[k]))

\* a located column whose cell is no number for one platform, which gets 0
\* while a sibling keeps its non-zero value
C14_Witness ==
    /\ ExtractReturned /\ LongEnough
    /\ HasBadCell("apps") /\ ReadColumn("apps") # NoColumn
    /\ ~HasBadCell("web")
    /\ DiffersOnlyIn("apps") # {extract_call.csv_data}
    /\ metrics.apps = 0 /\ metrics.web # 0 /\ metrics.combined # 0

\* C15: for every header column i whose cell contains the start date of the
\* target week, a platform whose row has a numeric cell at column i gets the
\* number of that cell.
C15_LocatedColumnIsRead ==
    (ExtractReturned /\ LongEnough) =>
        \A platform \in Range(Platforms) : \A i \in DateColumns :
            (Cardinality(LinesOf(platform)) = 1
                 /\ i < Len(UsedCells(platform))
                 /\ IsNumericCell(UsedCells(platform)[i + 1])) =>
                metrics[platform] = FloatValue(CleanCell(UsedCells(platform)[i + 1]))

\* the same for the columns after the first: holds
LocatedColumnAfterFirstIsRead ==
    (ExtractReturned /\ LongEnough) =>
        \A platform \in Range(Platforms) : \A i \in DateColumns \ {0} :
            (Cardinality(LinesOf(platform)) = 1
                 /\ i < Len(UsedCells(platform))
                 /\ IsNumericCell(UsedCells(platform)[i + 1])) =>
                metrics[platform] = FloatValue(CleanCell(UsedCells(platform)[i + 1]))

\* the spec's example: week 29 of 2025 starts on 2025-07-14, App = 1234
ExtractsExample1234 ==
    /\ ExtractReturned
    /\ extract_call.year = 2025 /\ extract_call.target_week = 29
    /\ DateColumns = {2}
    /\ metrics.apps = 1234000

----------------------------------------------------------------------------
(* Properties of the week-date computations *)

WeekComputed == week_call # NoDict

\* the result is the Monday-to-Sunday range of ISO week (year, week), and
\* every computation gives the same start for these arguments
IsTheIsoWeek ==
    /\ ~week_dates.raised
    /\ Weekday(week_dates.start) = 0
    /\ IsoYear(week_dates.start) = week_call.year
    /\ IsoWeek(week_dates.start) = week_call.week
    /\ week_dates.end = week_dates.start + 6
    /\ Weekday(week_dates.end) = 6
    /\ \A function \in WeekFunctions :
           LET other == WeekDates(function, week_call.year, week_call.week)
           IN  ~other.raised /\ other.start = week_dates.start

\* C16: for every year and every week number in 1..53, every week-date
\* computation yields the same start date, a Monday whose ISO year and ISO
\* week are exactly (year, week), and an end date 6 days later, a Sunday.
C16_WeekDatesAreTheIsoWeek ==
    WeekComputed => IsTheIsoWeek

\* the same for the week numbers the ISO year has: holds
WeekDatesOfExistingWeeks ==
    (WeekComputed /\ IsoWeekExists(week_call.year, week_call.week)) => IsTheIsoWeek

----------------------------------------------------------------------------
(* Properties of the insights and recommendations *)

Reconciled == op = "_perform_reconciliation" /\ outcome = "report"

Insights == reconciliation.insights
Recommendations == reconciliation.recommendations
InsightsOfKind(kinds) == {i \in DOMAIN Insights : Insights[i].kind \in kinds}

\* |difference_percent| <= 5 for the summary of the report
WithinFivePercent ==
    Abs(reconciliation.summary.difference_percent.num)
        <= 5 * reconciliation.summary.difference_percent.den

\* C18: the insights start with exactly one overall-alignment insight; it is
\* the well-aligned statement iff |summary.difference_percent| <= 5, and
\* otherwise the over/under-reporting statement with the signed percentage.
C18_OverallInsight ==
    Reconciled =>
        /\ Insights # <<>>
        /\ InsightsOfKind({"overall", "aligned"}) = {1}
        /\ Insights[1].kind = "aligned" <=> WithinFivePercent
        /\ Insights[1].kind = "overall" =>
               /\ Insights[1].amount = Abs(reconciliation.summary.difference)
               /\ Insights[1].direction =
                      (IF reconciliation.summary.difference > 0 THEN "more"
                                                                 ELSE "fewer")
               /\ Insights[1].pct_tenths =
                      RoundHalfEven(10 * reconciliation.summary.difference_percent.num,
                                    reconciliation.summary.difference_percent.den)

\* a difference of exactly 5% is reported as well-aligned
C18_Witness ==
    /\ Reconciled
    /\ reconciliation.summary.appsflyer_installs = 2000
    /\ reconciliation.summary.ga4_new_users = 2100
    /\ Insights[1].kind = "aligned"

\* the under-reporting statement with its percentage: 2000 against 1200, -40.0%
C18_UnderReported ==
    /\ Reconciled
    /\ reconciliation.summary.appsflyer_installs = 2000
    /\ reconciliation.summary.ga4_new_users = 1200
    /\ Insights[1] = Insight("overall", "", "fewer", 800, -400)

\* the channels that satisfy max(a, b) > 50, |difference| > 100 and
\* |difference_percent| > 20
Qualifying ==
    {c \in DOMAIN ByChannel :
        /\ ByChannel[c].appsflyer > 50 \/ ByChannel[c].ga4 > 50
        /\ Abs(ByChannel[c].ga4 - ByChannel[c].appsflyer) > 100
        /\ ByChannel[c].appsflyer > 0
        /\ 100 * Abs(ByChannel[c].ga4 - ByChannel[c].appsflyer)
               > 20 * ByChannel[c].appsflyer}

\* the channel insights, in the order of the list
ChannelInsights ==
    SelectSeq(Insights, LAMBDA x : x.kind = "channel")

MinOf(a, b) == IF a < b THEN a ELSE b

\* C19: the channel insights are the (at most 3) channels of largest
\* |difference| among the qualifying ones, in descending |difference|; the
\* comparisons are strict, so |difference| = 100 or |difference_percent| = 20
\* never qualifies.
C19_TopThreeChannelInsights ==
    Reconciled =>
        /\ Len(ChannelInsights) = MinOf(3, Cardinality(Qualifying))
        /\ \A i \in DOMAIN ChannelInsights :
               /\ ChannelInsights[i].channel \in Qualifying
               /\ ChannelInsights[i].amount =
                      Abs(ByChannel[ChannelInsights[i].channel].difference)
               /\ ChannelInsights[i].direction =
                      (IF ByChannel[ChannelInsights[i].channel].difference > 0
                       THEN "overreporting" ELSE "underreporting")
        /\ \A i, j \in DOMAIN ChannelInsights :
               /\ i < j => ChannelInsights[i].amount >= ChannelInsights[j].amount
               /\ i # j => ChannelInsights[i].channel # ChannelInsights[j].channel
        /\ \A c \in Qualifying :
               (\A i \in DOMAIN ChannelInsights : ChannelInsights[i].channel # c) =>
                   \A i \in DOMAIN ChannelInsights :
                       Abs(ByChannel[c].difference) <= ChannelInsights[i].amount
        /\ \A i \in InsightsOfKind({"channel"}) : i \in 2..(Len(ChannelInsights) + 1)

\* four channels qualify and three are listed
C19_Witness ==
    /\ Reconciled
    /\ Cardinality(Qualifying) = 4
    /\ Len(ChannelInsights) = 3
    /\ \E c \in Qualifying :
           \A i \in DOMAIN ChannelInsights : ChannelInsights[i].channel # c

\* A = 500, B = 600 (|difference| = 100, 20%) next to a channel that is listed
C19_BoundaryNotEmitted ==
    /\ Reconciled
    /\ \E c \in DOMAIN ByChannel :
           /\ ByChannel[c].appsflyer = 500 /\ ByChannel[c].ga4 = 600
           /\ \A i \in DOMAIN ChannelInsights : ChannelInsights[i].channel # c
    /\ \E c \in DOMAIN ByChannel :
           /\ ByChannel[c].appsflyer = 1000 /\ ByChannel[c].ga4 = 850
           /\ \A i \in DOMAIN ChannelInsights : ChannelInsights[i].channel # c
    /\ Len(ChannelInsights) = 2

\* the raw A-side sources that the mapping table does not list
Unlisted == {s \in DOMAIN MediaSources : s \notin DOMAIN reverse_mapping}
UnlistedTotal == SumOver(MediaSources, Unlisted)
UnmappedList == reconciliation.unmapped_sources.appsflyer
MapSources ==
    SelectSeq(Recommendations, LAMBDA x : x.kind = "map_sources")

\* C20: when some raw A-side source is not in the mapping table, the report
\* lists exactly those sources in unmapped_sources, has an Unmapped channel
\* whose A-side value is the sum of their totals, one insight stating that
\* sum and one recommendation naming at most 3 of them; when no source is
\* unmapped, none of these appear.
C20_UnmappedSourcesSurface ==
    Reconciled =>
        IF Unlisted # {}
        THEN /\ {UnmappedList[i].source : i \in DOMAIN UnmappedList} = Unlisted
             /\ Len(UnmappedList) = Cardinality(Unlisted)
             /\ \A i \in DOMAIN UnmappedList :
                    UnmappedList[i].installs = MediaSources[UnmappedList[i].source]
             /\ "Unmapped" \in DOMAIN ByChannel
             /\ ByChannel["Unmapped"].appsflyer = UnlistedTotal
             /\ Cardinality(InsightsOfKind({"unmapped"})) = 1
             /\ \A i \in InsightsOfKind({"unmapped"}) :
                    Insights[i].amount = UnlistedTotal
             /\ Len(MapSources) = 1
             /\ Len(MapSources[1].sources) = MinOf(3, Cardinality(Unlisted))
             /\ Range(MapSources[1].sources) \subseteq Unlisted
        ELSE /\ UnmappedList = <<>>
             /\ "Unmapped" \notin DOMAIN ByChannel
             /\ InsightsOfKind({"unmapped"}) = {}
             /\ MapSources = <<>>

\* four unlisted sources after a listed one: all four are listed, three named
C20_Witness ==
    /\ Reconciled
    /\ Cardinality(Unlisted) = 4
    /\ DOMAIN MediaSources # Unlisted
    /\ Len(UnmappedList) = 4
    /\ ByChannel["Unmapped"].appsflyer = 80
    /\ Len(MapSources[1].sources) = 3

\* no source is unlisted: nothing about unmapped sources in the report
C20_NoneUnmapped ==
    /\ Reconciled
    /\ MediaSources # <<>> /\ Unlisted = {}
    /\ MapSources = <<>>

----------------------------------------------------------------------------
(* Purity of the operations *)

\* the calls of the sequence that have the operation and arguments of call i
SameCall(i) ==
    {j \in DOMAIN seen : seen[j].op = seen[i].op /\ seen[j].args = seen[i].args}

LastCall == seen[Len(seen)]

C17_ExtractRepeated ==
    /\ Len(seen) = 3
    /\ seen[1].op = "extract_platform_metrics"
    /\ seen[2].op = "calculate_platform_yoy_comparison"
    /\ seen[3] = seen[1]
    /\ seen[1].result.apps = 1234000

----------------------------------------------------------------------------
(* Channels without A-side volume *)

\* the channels named by a channel insight of the report
FlaggedChannels ==
    {Insights[i].channel : i \in InsightsOfKind({"channel"})}

PaidSearchLinks ==
    SelectSeq(Recommendations, LAMBDA x : x.kind = "paid_search_links")

\* C29: a channel whose A-side value is 0 has difference_percent 0, is never
\* named by a channel insight and, when it is Paid Search, never triggers
\* the Paid Search recommendation, whatever its B-side volume.
C29_ZeroASideNotFlagged ==
    Reported =>
        \A c \in DOMAIN ByChannel :
            ByChannel[c].appsflyer = 0 =>
                /\ ByChannel[c].difference_percent.num = 0
                /\ c \notin FlaggedChannels
                /\ c = "Paid Search" => PaidSearchLinks = <<>>

\* Paid Search with no installs against 700 new users: nothing is said
C29_Witness ==
    /\ Reported
    /\ "Paid Search" \in DOMAIN ByChannel
    /\ ByChannel["Paid Search"].appsflyer = 0
    /\ ByChannel["Paid Search"].ga4 = 700
    /\ ByChannel["Paid Search"].difference = 700
    /\ FlaggedChannels = {}
    /\ PaidSearchLinks = <<>>

\* Paid Search with installs on its A side does trigger the recommendation
C29_PaidSearchWithInstalls ==
    /\ Reported
    /\ "Paid Search" \in DOMAIN ByChannel
    /\ ByChannel["Paid Search"].appsflyer > 0
    /\ Len(PaidSearchLinks) = 1

----------------------------------------------------------------------------
(* The threshold recommendations *)

RecommendationsOfKind(kind) ==
    SelectSeq(Recommendations, LAMBDA x : x.kind = kind)

\* the threshold checks that have fired in the report
FiredChecks ==
    {Recommendations[i].kind : i \in DOMAIN Recommendations} \ {"map_sources"}

TotalsCondition ==
    10 * reconciliation.summary.appsflyer_installs
        > 11 * reconciliation.summary.ga4_new_users

DirectCondition ==
    /\ "Direct" \in DOMAIN ByChannel
    /\ 2 * ByChannel["Direct"].ga4 > 3 * ByChannel["Direct"].appsflyer

PaidSearchCondition ==
    /\ "Paid Search" \in DOMAIN ByChannel
    /\ ByChannel["Paid Search"].appsflyer > 0
    /\ 100 * Abs(ByChannel["Paid Search"].ga4 - ByChannel["Paid Search"].appsflyer)
           > 30 * ByChannel["Paid Search"].appsflyer

\* C26: each threshold recommendation appears once if its own condition
\* holds and not at all otherwise: missing instrumentation iff A total >
\* 1.1 * B total, Direct iff channel Direct has B > 1.5 * A, Paid Search iff
\* channel Paid Search has |difference_percent| > 30.
C26_ChecksFireIndependently ==
    Reconciled =>
        /\ Len(RecommendationsOfKind("missing_ga4_tracking"))
               = (IF TotalsCondition THEN 1 ELSE 0)
        /\ Len(RecommendationsOfKind("direct_tracking"))
               = (IF DirectCondition THEN 1 ELSE 0)
        /\ Len(RecommendationsOfKind("paid_search_links"))
               = (IF PaidSearchCondition THEN 1 ELSE 0)

\* all three checks fire in one report
C26_Witness ==
    /\ Reconciled
    /\ TotalsCondition /\ DirectCondition /\ PaidSearchCondition
    /\ FiredChecks = {"missing_ga4_tracking", "direct_tracking", "paid_search_links"}
    /\ Len(Recommendations) = 3

\* the Direct check alone
C26_OnlyDirect ==
    /\ Reconciled
    /\ FiredChecks = {"direct_tracking"}

\* the totals check alone
C26_OnlyTotals ==
    /\ Reconciled
    /\ FiredChecks = {"missing_ga4_tracking"}

----------------------------------------------------------------------------
(* The order of the recommendations *)

\* the place of a check in the definition of _generate_recommendations
CheckRank(kind) ==
    CASE kind = "missing_ga4_tracking" -> 1
      [] kind = "direct_tracking" -> 2
      [] kind = "paid_search_links" -> 3
      [] kind = "map_sources" -> 4

\* C25: the recommendations of every report are in check-definition order:
\* totals, then Direct, then Paid Search, then unmapped sources, whatever the
\* order in which the channels are iterated.
C25_RecommendationsInCheckOrder ==
    Reconciled =>
        \A i, j \in DOMAIN Recommendations :
            i < j => CheckRank(Recommendations[i].kind)
                         < CheckRank(Recommendations[j].kind)

\* the totals check is first and the unmapped sources are last
C25_TotalsFirstUnmappedLast ==
    Reconciled =>
        \A i \in DOMAIN Recommendations :
            /\ Recommendations[i].kind = "missing_ga4_tracking" => i = 1
            /\ Recommendations[i].kind = "map_sources" => i = Len(Recommendations)

\* both channel checks fire and the set iterates Paid Search before Direct
C25_PaidSearchBeforeDirect ==
    /\ Reconciled
    /\ \E i, j \in DOMAIN Recommendations :
           /\ i < j
           /\ Recommendations[i].kind = "paid_search_links"
           /\ Recommendations[j].kind = "direct_tracking"

----------------------------------------------------------------------------
(* Order of the raw totals *)

\* the A-side values of the channel buckets that have a source
ASideOfBuckets ==
    [c \in {ChannelOf(reverse_mapping, s) : s \in DOMAIN MediaSources} |->
        ByChannel[c].appsflyer]

\* C22: the channel sums do not depend on the order in which the raw
\* per-source totals are processed: for every permutation of the sources the
\* loop gives the same buckets, Unmapped included, and these are the A-side
\* values of the report.
C22_SumsIndependentOfOrder ==
    Reconciled =>
        \A order \in PermsOf(DOMAIN MediaSources) :
            /\ NormalizeInOrder(reverse_mapping, MediaSources, order) = af_by_channel
            /\ NormalizeInOrder(reverse_mapping, MediaSources, order) = ASideOfBuckets

\* four unlisted sources with different totals after a listed one: 120
\* orders, one Unmapped sum
C22_Witness ==
    /\ Reconciled
    /\ Cardinality(DOMAIN MediaSources) = 5
    /\ Cardinality(Unlisted) = 4
    /\ af_by_channel = ("Direct" :> 1000) @@ ("Unmapped" :> 80)
    /\ ByChannel["Unmapped"].appsflyer = 80
    /\ NormalizeInOrder(reverse_mapping, MediaSources, appsflyer.media_order)
           = af_by_channel

----------------------------------------------------------------------------
(* The located column and the backward scan *)

\* the first header column with the start date of the target week
LocatedColumn == CHOOSE c \in DateColumns : \A d \in DateColumns : c <= d

\* the number in the cell of the platform's row under the located column; 0
\* when the row has no such cell or the cell is empty or no number
LocatedCellValue(platform) ==
    LET cells == UsedCells(platform)
    IN  IF LocatedColumn < Len(cells) /\ IsNumericCell(cells[LocatedColumn + 1])
        THEN FloatValue(CleanCell(cells[LocatedColumn + 1]))
        ELSE 0

\* what the backward scan gives for the row of the platform
ScannedValue(platform) ==
    FallbackScan(UsedCells(platform), Len(UsedCells(platform)))

\* C23: the backward scan gives the value of a platform if and only if no
\* header column with the start date of the target week was located; when a
\* column was located, the value comes from that column of the row and from
\* no other.
C23_ScanIffNoColumnLocated ==
    (ExtractReturned /\ LongEnough) =>
        \A platform \in Range(Platforms) :
            UsedLine(platform) # 0 =>
                metrics[platform] =
                    (IF DateColumns = {} THEN ScannedValue(platform)
                                         ELSE LocatedCellValue(platform))

\* the same for a located column after the first that lies within the row:
\* holds
LocatedInnerColumnIsNotScanned ==
    (ExtractReturned /\ LongEnough) =>
        \A platform \in Range(Platforms) :
            (UsedLine(platform) # 0 /\ DateColumns # {}
                 /\ ReadColumn(platform) # NoColumn) =>
                metrics[platform] = LocatedCellValue(platform)

\* the date is in header column 0 and the row has 1234 there: the scan
\* takes 30 from column 2
C23_ColumnZeroIsScanned ==
    /\ ExtractReturned /\ LongEnough
    /\ DateColumns = {0}
    /\ Cardinality(LinesOf("apps")) = 1
    /\ LocatedCellValue("apps") = 1234000
    /\ metrics.apps = 30000

\* the row ends before the located column 2: the scan takes 30 from column 1
C23_ShortRowIsScanned ==
    /\ ExtractReturned /\ LongEnough
    /\ DateColumns = {2}
    /\ Len(UsedCells("apps")) = 2
    /\ metrics.apps = 30000

----------------------------------------------------------------------------
(* Cells written with a thousands separator *)

\* the cells of a line as a CSV reader sees them: a comma between two quotes
\* belongs to its cell
CsvCells(line) ==
    LET inside(i) == Cardinality({j \in 1..(i - 1) : line[j] = QUOTE}) % 2 = 1
    IN  Split([i \in DOMAIN line |->
                  IF line[i] = "," /\ ~inside(i) THEN "<sep>" ELSE line[i]],
              "<sep>")

\* a platform row with a quoted cell that holds a comma
HasSeparatedCell(platform) ==
    /\ UsedLine(platform) # 0
    /\ \E k \in DOMAIN CsvCells(ExtractLines[UsedLine(platform)]) :
           Contains(CsvCells(ExtractLines[UsedLine(platform)])[k], ",")

\* C24: a quoted cell written with a thousands separator counts as one cell:
\* the value of a platform whose row has such a cell is the full number of
\* the cell under the located column (1234 for "1,234"), and the other cells
\* of the row stay under their header columns.
C24_ThousandsSeparatorKeepsColumns ==
    (ExtractReturned /\ LongEnough) =>
        \A platform \in Range(Platforms) :
            (HasSeparatedCell(platform) /\ DateColumns # {} /\ LocatedColumn >= 1) =>
                LET cells == CsvCells(ExtractLines[UsedLine(platform)])
                IN  (LocatedColumn < Len(cells)
                         /\ IsNumericCell(cells[LocatedColumn + 1])) =>
                        metrics[platform] =
                            FloatValue(CleanCell(cells[LocatedColumn + 1]))

\* "1,234" under the located column is extracted as 1
C24_SeparatedCellReadAsOne ==
    /\ ExtractReturned /\ LongEnough
    /\ DateColumns = {2}
    /\ Cardinality(LinesOf("apps")) = 1
    /\ Len(CsvCells(ExtractLines[UsedLine("apps")])) = 3
    /\ CleanCell(CsvCells(ExtractLines[UsedLine("apps")])[3]) = <<"1", "2", "3", "4">>
    /\ Contains(CsvCells(ExtractLines[UsedLine("apps")])[3], ",")
    /\ metrics.apps = 1000

\* "1,234" before the located column shifts the row: 234 is extracted where
\* the cell under the column holds 30
C24_LaterCellsShifted ==
    /\ ExtractReturned /\ LongEnough
    /\ DateColumns = {2}
    /\ Cardinality(LinesOf("apps")) = 1
    /\ Len(CsvCells(ExtractLines[UsedLine("apps")])) = 3
    /\ Contains(CsvCells(ExtractLines[UsedLine("apps")])[2], ",")
    /\ CleanCell(CsvCells(ExtractLines[UsedLine("apps")])[3]) = <<"3", "0">>
    /\ metrics.apps = 234000

----------------------------------------------------------------------------
(* The most recently completed week *)

WeekInfoComputed == op \in WeekInfoFunctions

\* the Monday of the ISO week that contains the day
MondayOf(day) == day - Weekday(day)

\* the analysis week is the ISO week that starts 7 days before the week of now
IsPrecedingWeek(info, now) ==
    /\ IsoWeekExists(info.analysis_year, info.analysis_week)
    /\ fromisocalendar(info.analysis_year, info.analysis_week) = MondayOf(now) - 7
    /\ info.analysis_year = IsoYear(now - 7)
    /\ info.analysis_week = IsoWeek(now - 7)

\* C27: for every current date the analysis week is the ISO (year, week)
\* immediately before the ISO week that contains now, also when now lies in
\* ISO week 1, and all computations of the previous week give it.
C27_PreviousWeekIsPrecedingIsoWeek ==
    WeekInfoComputed =>
        /\ week_dates.current_year = IsoYear(week_call.now)
        /\ week_dates.current_week = IsoWeek(week_call.now)
        /\ IsPrecedingWeek(week_dates, week_call.now)
        /\ \A function \in WeekInfoFunctions :
               WeekInfoOf(function, week_call.now) = week_dates

\* the same for the computations that go back 7 days, and for the other two
\* when Dec 31 of the previous year is not in ISO week 1: holds
PreviousWeekBySubtraction ==
    (/\ WeekInfoComputed
     /\ \/ op \in {"enhanced_weekly_analyzer.get_week_info", "default_target_week"}
        \/ week_dates.current_week # 1
        \/ IsoWeek(Ordinal(week_dates.current_year - 1, 12, 31)) # 1) =>
        IsPrecedingWeek(week_dates, week_call.now)

\* 2025-01-02 lies in week 1 of 2025: the week before is week 52 of 2024,
\* get_current_week_info gives week 1 of 2024
C27_FirstWeekOf2025 ==
    /\ op = "get_current_week_info"
    /\ week_call.now = Ordinal(2025, 1, 2)
    /\ week_dates = WeekInfo(2025, 1, 2024, 1)
    /\ IsoYear(week_call.now - 7) = 2024 /\ IsoWeek(week_call.now - 7) = 52

\* 2021-01-05 lies in week 1 of 2021: week 53 of 2020 is given
C27_FirstWeekOf2021 ==
    /\ op = "get_current_week_info"
    /\ week_call.now = Ordinal(2021, 1, 5)
    /\ week_dates = WeekInfo(2021, 1, 2020, 53)

----------------------------------------------------------------------------
(* The samples of the weekly report *)

WeeklyReported ==
    op \in {"get_weekly_yoy_data", "analyze_weekly_data"} /\ outcome = "report"

YoyMetrics == {"sessions", "sessions_per_user", "session_conversion"}

CurrentChart(metric) ==
    CASE metric = "sessions" -> call.results.sessions_current
      [] metric = "sessions_per_user" -> call.results.sessions_per_user_current
      [] metric = "session_conversion" -> call.results.session_conversion_current

PreviousChart(metric) ==
    CASE metric = "sessions" -> call.results.sessions_previous
      [] metric = "sessions_per_user" -> call.results.sessions_per_user_previous
      [] metric = "session_conversion" -> call.results.session_conversion_previous

\* the header column of the chart that carries the start date of the ISO
\* week, NoColumn when the chart has none
WeekColumn(chart, year, week) ==
    LET lines == SplitLines(chart)
    IN  IF chart = <<>> \/ HeaderIndex(lines) = 0 \/ ~IsoWeekExists(year, week)
        THEN NoColumn
        ELSE TargetDateColumn(lines[HeaderIndex(lines)],
                              FormatDate(fromisocalendar(year, week)))

\* the cell of the platform's row under a column of the chart
CellUnder(chart, column, platform) ==
    Split(SplitLines(chart)[PlatformLine(SplitLines(chart), platform)], ",")[column + 1]

\* the sample is the number under the column of the week, where the chart
\* has the column and the cell is a number
SampleIsFromWeek(sample, chart, year, week, platform) ==
    (WeekColumn(chart, year, week) # NoColumn
         /\ IsNumericCell(CellUnder(chart, WeekColumn(chart, year, week), platform))) =>
        sample = FloatValue(CleanCell(
                     CellUnder(chart, WeekColumn(chart, year, week), platform)))

\* C28: for a weekly report requested for (year Y, week W), the current
\* sample of every year-over-year metric is the value under the start date
\* of ISO week (Y, W) and the previous sample the value under the start date
\* of ISO week (Y - 1, W), for every target year Y.
C28_SamplesOfTargetYear ==
    WeeklyReported =>
        \A metric \in YoyMetrics :
            yoy.metrics[metric].status = "result" =>
                \A platform \in Range(Platforms) :
                    /\ SampleIsFromWeek(yoy.metrics[metric].platforms[platform].current,
                                        CurrentChart(metric), call.target_year,
                                        call.target_week, platform)
                    /\ SampleIsFromWeek(yoy.metrics[metric].platforms[platform].previous,
                                        PreviousChart(metric), call.target_year - 1,
                                        call.target_week, platform)

\* the same for the target year 2025: holds
SamplesOfYear2025 ==
    (WeeklyReported /\ call.target_year = 2025) =>
        \A metric \in YoyMetrics :
            yoy.metrics[metric].status = "result" =>
                \A platform \in Range(Platforms) :
                    /\ SampleIsFromWeek(yoy.metrics[metric].platforms[platform].current,
                                        CurrentChart(metric), 2025,
                                        call.target_week, platform)
                    /\ SampleIsFromWeek(yoy.metrics[metric].platforms[platform].previous,
                                        PreviousChart(metric), 2024,
                                        call.target_week, platform)

\* week 28 of 2026 is requested and the chart has 30 under 2026-07-06: the
\* current sample is the 40 of the last column
C28_Year2026ReadsLastColumn ==
    /\ WeeklyReported
    /\ call.target_year = 2026 /\ call.target_week = FirstChartWeek
    /\ WeekColumn(call.results.sessions_current, 2026, FirstChartWeek) = 1
    /\ CleanCell(CellUnder(call.results.sessions_current, 1, "apps")) = <<"3", "0">>
    /\ yoy.metrics.sessions.status = "result"
    /\ yoy.metrics.sessions.platforms.apps.current = 40000

\* week 28 of 2025 is requested from the charts of 2025 and 2024
C28_Year2025 ==
    /\ WeeklyReported
    /\ call.target_year = 2025 /\ call.target_week = FirstChartWeek
    /\ WeekColumn(call.results.sessions_current, 2025, FirstChartWeek) = 1
    /\ WeekColumn(call.results.sessions_previous, 2024, FirstChartWeek) = 1
    /\ CleanCell(CellUnder(call.results.sessions_current, 2, "apps")) = <<"4", "0">>
    /\ yoy.metrics.sessions.status = "result"
    /\ yoy.metrics.sessions.platforms.apps.current = 30000

----------------------------------------------------------------------------
(* C21: a null year-over-year delta in the report generators *)

ReportGenerated ==
    op \in {"generate_executive_summary", "generate_comparative_summary",
            "_check_trend_alignment", "send_to_slack"}

ReportedMetrics == report_call.args.metrics

NullPositions ==
    {p \in ReportMetrics \X Range(Platforms) :
        IsNone(ReportedMetrics, p[1], p[2])}

NullHandledAsNoData ==
    /\ ~report.raised
    /\ \A d \in report.deltas : <<d.metric, d.platform>> \notin NullPositions

\* C21: whenever a report generator (generate_executive_summary,
\* generate_comparative_summary, _check_trend_alignment, send_to_slack) has
\* run on metrics in which the yoy_change of some platform is null, it has
\* completed without raising and has rendered no "up" or "down" delta for a
\* platform whose yoy_change is null.
C21_NullDeltaIsNoComparableData ==
    (ReportGenerated /\ NullPositions # {}) => NullHandledAsNoData

\* generate_executive_summary alone keeps to it
ExecutiveSummaryHandlesNull ==
    (op = "generate_executive_summary" /\ NullPositions # {})
        => NullHandledAsNoData

\* a summary that skipped a null delta and rendered the others
C21_ExecutiveSummarySkipsNull ==
    /\ op = "generate_executive_summary"
    /\ NullPositions = {<<"sessions", "web">>}
    /\ ~report.raised
    /\ [metric |-> "sessions", platform |-> "apps", direction |-> "up"]
           \in report.deltas

\* the comparative summary raises on the null web sessions delta
C21_ComparativeSummaryRaises ==
    /\ op = "generate_comparative_summary"
    /\ NullPositions = {<<"sessions", "web">>}
    /\ report.raised
    /\ report.error = "TypeError"

\* the trend check raises on the null combined sessions delta
C21_TrendAlignmentRaises ==
    /\ op = "_check_trend_alignment"
    /\ NullPositions = {<<"sessions", "combined">>}
    /\ report_call.args.ga4_sessions.combined.yoy_change # Null
    /\ report.raised

\* the Slack message raises on the null web sessions delta
C21_SlackRaises ==
    /\ op = "send_to_slack"
    /\ NullPositions = {<<"sessions", "web">>}
    /\ report_call.args.slack_webhook_url
    /\ report.raised

----------------------------------------------------------------------------
(* C30: the browser session when reconcile_week is over *)

ReconcileWeekFinished ==
    /\ session_pc \in {"returned", "raised"}
    /\ session_call.function = "reconcile_week"

SessionClosed == browser = NoBrowser /\ logged_in = FALSE

\* C30: whenever reconcile_week has finished, by returning a report or by
\* raising (login failure, export failure, analysis failure), the browser
\* session is closed: browser is None and logged_in is False.
C30_SessionClosedWhenFinished ==
    ReconcileWeekFinished => SessionClosed

\* it is closed whenever reconcile_week got as far as its try block
ClosedAfterTheTry ==
    (ReconcileWeekFinished /\ session_call.raised_in # "start_session")
        => SessionClosed

\* start_session while logged in launches no browser
StartSessionWhileLoggedIn ==
    [][(session_pc = "start_session" /\ logged_in)
          => (launched' = launched /\ browser' = browser)]_vars

\* the browser this call of reconcile_week launched is not left open
LaunchedBrowserClosed ==
    ReconcileWeekFinished => session_call.launch \notin open_browsers

\* reconcile_week raised out of the login; the browser it launched is open
C30_LoginFailureLeavesBrowser ==
    /\ ReconcileWeekFinished
    /\ session_call.raised_in = "start_session"
    /\ browser # NoBrowser
    /\ browser = session_call.launch
    /\ browser \in open_browsers

\* reconcile_week raised out of the export and the session is closed
C30_ExportFailureCloses ==
    /\ ReconcileWeekFinished
    /\ session_call.raised_in = "try"
    /\ launched > 0
    /\ SessionClosed

\* a later start_session launched a second browser over the one left open
C30_SecondBrowserOverTheFirst ==
    /\ Cardinality(open_browsers) = 2
    /\ logged_in

\* start_session returned at once: the analyzer was logged in
C30_StartedWhileLoggedIn ==
    /\ session_pc = "try"
    /\ logged_in
    /\ launched = 1
    /\ browser = 1
    /\ session_call.function = "reconcile_week"
    /\ session_call.launch = NoBrowser

====
